---- MODULE Spec2Model ----
(***************************************************************************)
(* A model of streamlit-pydantic's input renderer (ui_renderer.py) and its *)
(* schema predicates (schema_utils.py).                                    *)
(*                                                                         *)
(* Python values are encoded as records [kind, s, m]:                      *)
(*   kind = "none"  Python None                                            *)
(*   kind = "int"   an int, s its digits                                   *)
(*   kind = "str"   a str, s its characters                                *)
(*   kind = "map"   a dict, m a function from its keys to values           *)
(* A dotted key "a.b" is the sequence <<"a","b">> that key.split(".")      *)
(* yields.                                                                 *)
(***************************************************************************)
EXTENDS Integers, Sequences, FiniteSets, TLC

VARIABLES
    pstate,     \* the path-keyed state: session_state[form_key + "-data"]
    sop,        \* the last store/get call on pstate and its outcome
    nops,       \* number of store/get calls made so far
    session,    \* st.session_state: form key -> that form's path-keyed state
    sact,       \* the last InputUI call on the session and its outcome
    cnode,      \* the schema node of the collection being rendered
    cinit,      \* the collection the first render started from
    coll,       \* the collection's stored value: a sequence of rows [k, v]
    shown,      \* the Add/Clear/Remove buttons left on the page by the last render
    cact,       \* the last render of the collection: button pressed, rows iterated
    chist,      \* the buttons pressed, one per render so far
    dnode,      \* the schema node handed to _render_property
    dres,       \* what _render_property did with dnode
    fields,     \* the schema properties of a form, in order
    fres,       \* what the property loop of render_ui did with fields
    unode,      \* the union node handed to _render_union_property
    ures,       \* what _render_union_property did with unode
    lnode,      \* the leaf node handed to a leaf renderer, with the widget's stored state
    lres,       \* the seed the renderer gave its widget and the value it returned
    dres2,      \* what a second call of _render_property did with the node the first call left
    ostate,     \* the session state of a form with a nested object
    oact,       \* the last render of that form: what each field gave and kept
    pnode,      \* the schema node handed to the schema predicates
    pres,       \* what each predicate answered on pnode, and what it raised
    nstate,     \* the path-keyed state of a form with a list of objects that hold a list
    nact,       \* the last render of that form: the button pressed
    rinits,     \* the init values of the renderings of one object definition in a form render, in order
    rdefault,   \* the schema default of the definition's child property
    rres,       \* the seed the child got in each rendering
    gfields,    \* the fields of a form rendered from an instance: required or not, and the instance's value
    gres        \* for each group_optional_fields strategy, the seeds a first render gave the fields

storeVars == <<pstate, sop, nops>>

sessVars == <<session, sact>>

collVars == <<cnode, cinit, coll, shown, cact, chist>>

dispVars == <<dnode, dres>>

formVars == <<fields, fres>>

unionVars == <<unode, ures>>

leafVars == <<lnode, lres>>

againVars == <<dres2>>

objVars == <<ostate, oact>>

predVars == <<pnode, pres>>

nestVars == <<nstate, nact>>

sharedVars == <<rinits, rdefault, rres>>

groupVars == <<gfields, gres>>

vars == <<storeVars, sessVars, collVars, dispVars, formVars, unionVars, leafVars, againVars, objVars, predVars, nestVars, sharedVars, groupVars>>

\* ---------------------------------------------------------------- values

NoKeys == {}

EmptyFn == [x \in NoKeys |-> x]

NoneV == [kind |-> "none", s |-> <<>>, m |-> EmptyFn]

IntV(d) == [kind |-> "int", s |-> <<d>>, m |-> EmptyFn]

StrV(chars) == [kind |-> "str", s |-> chars, m |-> EmptyFn]

MapV(f) == [kind |-> "map", s |-> <<>>, m |-> f]

EmptyMapV == MapV(EmptyFn)

\* A bool; b is "True" or "False".
BoolV(b) == [kind |-> "bool", s |-> <<b>>, m |-> EmptyFn]

FloatV(d) == [kind |-> "float", s |-> <<d>>, m |-> EmptyFn]

\* A list of str, s its items.
ListV(q) == [kind |-> "list", s |-> q, m |-> EmptyFn]

\* A key the property dict does not have (property.get gives None for it).
Absent == [kind |-> "absent", s |-> <<>>, m |-> EmptyFn]

IsMap(v) == v.kind = "map"

\* d[k] = v on a dict
MapSet(f, k, v) == [x \in (DOMAIN f) \cup {k} |-> IF x = k THEN v ELSE f[x]]

\* ------------------------------------------------- the path-keyed store

\* Longest dotted key the store operations are applied to.
MaxKeyLen == 2

Segs == {"a", "b"}

Keys == UNION {[1..n -> Segs] : n \in 1..MaxKeyLen}

\* Values handed to _store_value: scalars, None, and dicts (object inputs).
StoredVals == {IntV("5"), StrV(<<"a">>), EmptyMapV}

\* Number of store/get calls in one explored run.
MaxStoreOps == 3

\* `key_element not in state` for a Python value that is not a dict:
\* "raise" (TypeError: not iterable) or the membership answer.
NotInNonDict(v, el) ==
    IF v.kind = "str"
    THEN (IF \E i \in 1..Len(v.s) : v.s[i] = el THEN "in" ELSE "notin")
    ELSE "raise"

StoreOutcome(val, raised) == [val |-> val, raised |-> raised]

RECURSIVE StoreBuggyNoCreate(_, _, _)
StoreBuggyNoCreate(st, ks, v) ==
    IF ~IsMap(st) THEN StoreOutcome(st, TRUE)
    ELSE IF Len(ks) = 1 THEN StoreOutcome(MapV(MapSet(st.m, ks[1], v)), FALSE)
    ELSE IF ks[1] \notin DOMAIN st.m THEN StoreOutcome(st, FALSE)
    ELSE LET r == StoreBuggyNoCreate(st.m[ks[1]], Tail(ks), v)
         IN  StoreOutcome(MapV(MapSet(st.m, ks[1], r.val)), r.raised)

\* InputUI._store_value_in_state: walks key_elements, creating {} for each
\* missing intermediate, assigns at the last one.  A value that is not a
\* dict on the way raises TypeError (item assignment / membership / index).
RECURSIVE StoreValueInState(_, _, _)
StoreValueInState(st, ks, v) ==
    IF ~IsMap(st) THEN StoreOutcome(st, TRUE)
    ELSE IF Len(ks) = 1 THEN StoreOutcome(MapV(MapSet(st.m, ks[1], v)), FALSE)
    ELSE LET child == IF ks[1] \in DOMAIN st.m THEN st.m[ks[1]] ELSE EmptyMapV
             r == StoreValueInState(child, Tail(ks), v)
         IN  StoreOutcome(MapV(MapSet(st.m, ks[1], r.val)), r.raised)

GetOutcome(val, result, raised) == [val |-> val, result |-> result, raised |-> raised]

RECURSIVE GetRaisesOnMissing(_, _)
GetRaisesOnMissing(st, ks) ==
    IF ~IsMap(st) THEN GetOutcome(st, NoneV, TRUE)
    ELSE IF ks[1] \notin DOMAIN st.m THEN GetOutcome(st, NoneV, TRUE)
    ELSE IF Len(ks) = 1 THEN GetOutcome(st, st.m[ks[1]], FALSE)
    ELSE LET r == GetRaisesOnMissing(st.m[ks[1]], Tail(ks))
         IN  GetOutcome(st, r.result, r.raised)

\* InputUI._get_value_from_state: returns None when the last element is
\* missing; on the way it assigns {} to each missing intermediate.
RECURSIVE GetValueFromState(_, _)
GetValueFromState(st, ks) ==
    IF Len(ks) = 1
    THEN IF IsMap(st)
         THEN (IF ks[1] \notin DOMAIN st.m
               THEN GetOutcome(st, NoneV, FALSE)
               ELSE GetOutcome(st, st.m[ks[1]], FALSE))
         ELSE (IF NotInNonDict(st, ks[1]) = "notin"
               THEN GetOutcome(st, NoneV, FALSE)
               ELSE GetOutcome(st, NoneV, TRUE))
    ELSE IF ~IsMap(st) THEN GetOutcome(st, NoneV, TRUE)
    ELSE LET child == IF ks[1] \in DOMAIN st.m THEN st.m[ks[1]] ELSE EmptyMapV
             r == GetValueFromState(child, Tail(ks))
         IN  GetOutcome(MapV(MapSet(st.m, ks[1], r.val)), r.result, r.raised)

Range(q) == {q[i] : i \in DOMAIN q}

\* A side-effect-free lookup used to state properties: the value at ks, or
\* "absent" when some segment of ks is not there.
RECURSIVE Lookup(_, _)
Lookup(st, ks) ==
    IF ~IsMap(st) \/ ks[1] \notin DOMAIN st.m THEN [found |-> FALSE, val |-> NoneV]
    ELSE IF Len(ks) = 1 THEN [found |-> TRUE, val |-> st.m[ks[1]]]
    ELSE Lookup(st.m[ks[1]], Tail(ks))

IsPrefix(p, k) == Len(p) <= Len(k) /\ SubSeq(k, 1, Len(p)) = p

Related(p, k) == IsPrefix(p, k) \/ IsPrefix(k, p)

\* ------------------------------------------- InputUI: session and render

FormKeys == {"f", "g"}

\* The model's schema properties, in schema order.
Props == <<"a", "b">>

\* What a rendered widget may hand back for a property.
WidgetVals == {StrV(<<>>), StrV(<<"x">>)}

\* Python truthiness of a value: `not value`.
Falsy(v) ==
    \/ v.kind = "none"
    \/ (v.kind = "str" /\ v.s = <<>>)
    \/ (v.kind = "int" /\ v.s = <<"0">>)
    \/ (v.kind = "map" /\ DOMAIN v.m = {})
    \/ v.kind = "absent"
    \/ (v.kind = "bool" /\ v.s = <<"False">>)
    \/ (v.kind = "float" /\ v.s = <<"0.0">>)
    \/ (v.kind = "list" /\ v.s = <<>>)

\* InputUI._is_value_ignored
IsValueIgnored(ignoreEmpty, st, key, v) ==
    /\ ignoreEmpty
    /\ v.kind \in {"int", "float", "str"}
    /\ Falsy(v)
    /\ GetValueFromState(st, key).result = NoneV

\* The property loop of InputUI.render_ui from property i on: each rendered
\* value is stored under its property key unless it is ignored.
RECURSIVE RenderProps(_, _, _, _)
RenderProps(st, vals, ignoreEmpty, i) ==
    IF i > Len(Props) THEN st
    ELSE LET key == <<Props[i]>>
             read == GetValueFromState(st, key).val
             next == IF IsValueIgnored(ignoreEmpty, st, key, vals[Props[i]])
                     THEN read
                     ELSE StoreValueInState(read, key, vals[Props[i]]).val
         IN  RenderProps(next, vals, ignoreEmpty, i + 1)

\* The nested model: property "a" is a string, property "b" is an object
\* whose own properties are "a" and "c".
ObjectKey == "b"

ObjectProps == <<"a", "c">>

\* What a nested widget may hand back.
NestedVals == {StrV(<<>>), StrV(<<"x">>), IntV("0"), FloatV("0.0")}

\* The loop of InputUI._render_object_input from nested property i on:
\* each rendered value goes into object_inputs unless
\* _is_value_ignored(property_key, value), which is given the nested
\* property's own name.
RECURSIVE RenderObjectInput(_, _, _, _, _)
RenderObjectInput(st, nvals, ignoreEmpty, i, objectInputs) ==
    IF i > Len(ObjectProps) THEN objectInputs
    ELSE LET propertyKey == ObjectProps[i]
             value == nvals[propertyKey]
         IN  RenderObjectInput(st, nvals, ignoreEmpty, i + 1,
                 IF IsValueIgnored(ignoreEmpty, st, <<propertyKey>>, value)
                 THEN objectInputs
                 ELSE MapSet(objectInputs, propertyKey, value))

\* The property loop of InputUI.render_ui on the nested model: "a" is
\* rendered and stored unless ignored, then "b" is rendered as an object
\* and its dict is stored under "b".
RenderNestedProps(st, val, nvals, ignoreEmpty) ==
    LET afterA == IF IsValueIgnored(ignoreEmpty, st, <<"a">>, val) THEN st
                  ELSE StoreValueInState(st, <<"a">>, val).val
        object == MapV(RenderObjectInput(afterA, nvals, ignoreEmpty, 1, EmptyFn))
    IN  [afterA |-> afterA,
         object |-> object,
         state  |-> IF IsValueIgnored(ignoreEmpty, afterA, <<ObjectKey>>, object)
                    THEN afterA
                    ELSE StoreValueInState(afterA, <<ObjectKey>>, object).val]

\* What one field did in a render: the value its widget gave, the value
\* the session held for that field when the render reached it, and
\* whether the render kept the value.
FieldTrace(value, before, kept) == [value |-> value, before |-> before, kept |-> kept]

\* A location segment of a validation error: a field name or a list index.
SegStr(n) == [t |-> "str", s |-> n]

SegInt(n) == [t |-> "int", s |-> n]

ErrLocs == { <<SegStr("a")>>,
             <<SegStr("__root__"), SegStr("a")>>,
             <<SegStr("b"), SegInt("0")>> }

\* Longest list of errors one ValidationError carries.
MaxErrors == 1

ErrorLists == UNION {[1..n -> ErrLocs] : n \in 1..MaxErrors}

Accepted == <<>>

\* The validator's verdict on the collected state: accepted, or the
\* ex.errors() of the ValidationError it raised.
Verdicts == {Accepted} \cup ErrorLists

\* ".".join(error["loc"]) raises TypeError unless every item is a str.
JoinRaises(loc) == \E i \in 1..Len(loc) : loc[i].t # "str"

\* .replace("__root__.", "") on the joined location, segment-wise.
RECURSIVE StripRoot(_)
StripRoot(loc) ==
    IF Len(loc) = 0 THEN <<>>
    ELSE IF loc[1].s = "__root__" /\ Len(loc) > 1 THEN StripRoot(Tail(loc))
    ELSE <<loc[1].s>> \o StripRoot(Tail(loc))

FormatRaises(errors) == \E i \in 1..Len(errors) : JoinRaises(errors[i])

FormatErrors(errors) == [i \in 1..Len(errors) |-> StripRoot(errors[i])]

NoWarning == <<>>

RenderResult(kind, warning) == [kind |-> kind, warning |-> warning]

\* The tail of InputUI.render_ui: the state itself, or with return_model the
\* validated instance; on ValidationError a warning listing the errors and
\* None.  An exception raised inside the handler propagates.
ValidateAndReturn(returnModel, verdict) ==
    IF ~returnModel THEN RenderResult("state", NoWarning)
    ELSE IF verdict = Accepted THEN RenderResult("model", NoWarning)
    ELSE IF FormatRaises(verdict) THEN RenderResult("raised", NoWarning)
    ELSE RenderResult("none", FormatErrors(verdict))

\* The tail of pydantic_form: the result of render_ui when the submit
\* button was used in this render, else None; an exception out of
\* render_ui propagates.
FormReturn(render, submit) ==
    IF render.kind = "raised" THEN render
    ELSE IF submit THEN render
    ELSE RenderResult("none", render.warning)

\* ------------------------------------------------ collection renderers

\* property.get("maxItems", 1000)
DefaultMaxItems == 1000

\* Longest collection a first render starts from.
MaxInitLen == 2

\* Renders of one collection in one explored run.
MaxRenders == 3

MinItemsVals == {0, 1, 2}

MaxItemsVals == {1, 2, DefaultMaxItems}

ItemVals == {StrV(<<"x">>), StrV(<<"y">>)}

DictKeys == {"1", "2", "k"}

Digits == <<"0", "1", "2", "3", "4", "5", "6", "7", "8", "9">>

\* str(n) for the lengths the model reaches
StrOf(n) == Digits[n + 1]

Row(k, v) == [k |-> k, v |-> v]

CollNodes ==
    [shape : {"list", "dict"}, readOnly : BOOLEAN,
     minItems : MinItemsVals, maxItems : MaxItemsVals]

\* A list's rows carry no key.
ListsOf(n) == {[i \in 1..n |-> Row("", vs[i])] : vs \in [1..n -> ItemVals]}

DictsOf(n) ==
    {[i \in 1..n |-> Row(ks[i], vs[i])] :
        ks \in {f \in [1..n -> DictKeys] : \A i, j \in 1..n : i # j => f[i] # f[j]},
        vs \in [1..n -> ItemVals]}

InitialColls(node) ==
    LET lens == {0} \cup {n \in 1..MaxInitLen : node.minItems <= n /\ n <= node.maxItems}
    IN  UNION {IF node.shape = "list" THEN ListsOf(n) ELSE DictsOf(n) : n \in lens}

RowKeys(d) == {d[i].k : i \in 1..Len(d)}

\* InputUI._add_button_allowed
AddButtonAllowed(index, node) ==
    ~(node.readOnly \/ index >= node.maxItems)

RemoveForbiddenOffByOne(index, node) ==
    node.readOnly \/ (index + 1 < node.minItems)

\* InputUI._remove_button_allowed: true when the item gets no Remove button.
RemoveButtonAllowed(index, node) ==
    node.readOnly \/ (index + 1 <= node.minItems)

ClearAllowedIgnoresMinItems(node) == ~node.readOnly

\* InputUI._clear_button_allowed
ClearButtonAllowed(node) ==
    ~(node.readOnly \/ node.minItems > 0)

\* InputUI._render_list_add_button: data_list.append(None)
RenderListAddButton(pressed, data) ==
    IF pressed THEN Append(data, Row("", NoneV)) ELSE data

\* InputUI._render_list_clear_button / _render_dict_clear_button
RenderClearButton(pressed, data) ==
    IF pressed THEN <<>> ELSE data

\* InputUI._render_dict_add_button: data_dict[str(len(data_dict) + 1)] = None
RenderDictAddButton(pressed, data) ==
    LET key == StrOf(Len(data) + 1)
    IN  IF ~pressed THEN data
        ELSE IF key \in RowKeys(data)
        THEN [i \in 1..Len(data) |->
                 IF data[i].k = key THEN Row(key, NoneV) ELSE data[i]]
        ELSE Append(data, Row(key, NoneV))

\* _render_single_string_input for an item schema {"type": "string"}: the
\* init value when it is truthy, else the text input's empty default.
RenderStringItem(init) == IF ~Falsy(init) THEN init ELSE StrV(<<>>)

\* The property _render_list_item hands to _render_property for an item:
\* "init_value": value if value else None, "is_item": True, and the keys of
\* the list's items schema.
ListItemProperty(value) ==
    [init_value |-> IF Falsy(value) THEN NoneV ELSE value, is_item |-> TRUE,
     type |-> "string"]

\* The property _render_dict_item hands to _render_property for a value:
\* "init_value": dict_value, "is_item": True, and the keys of the dict's
\* additionalProperties schema.
DictItemProperty(value) ==
    [init_value |-> value, is_item |-> TRUE, type |-> "string"]

ItemProperty(node, value) ==
    IF node.shape = "list" THEN ListItemProperty(value) ELSE DictItemProperty(value)

\* _render_list_item, not removed: the item rendered from its property.
RenderListItem(row) ==
    Row("", RenderStringItem(ListItemProperty(row.v).init_value))

\* _render_dict_item, not removed: the key's text input is seeded with the
\* key, the value is rendered from its property.
RenderDictItem(row) == Row(row.k, RenderStringItem(DictItemProperty(row.v).init_value))

NoPress == [b |-> "none", i |-> 0]

Press(b, i) == [b |-> b, i |-> i]

\* A Remove press that takes out the pressed row and every row after it.
RemovedFromIndexOn(node, press, index) ==
    ~RemoveButtonAllowed(index, node) /\ press.b = "remove" /\ index >= press.i

Removed(node, press, index) ==
    ~RemoveButtonAllowed(index, node) /\ press = Press("remove", index)

\* The calls of _render_property the item loop makes, in order: one for
\* each row whose Remove button is not pressed, with the row's index in the
\* iterated data, the row's value there, and the property built for it.
RECURSIVE EnteredItems(_, _, _, _)
EnteredItems(node, press, data, pos) ==
    IF pos > Len(data) THEN <<>>
    ELSE LET rest == EnteredItems(node, press, data, pos + 1)
         IN  IF Removed(node, press, pos - 1) THEN rest
             ELSE <<[index |-> pos - 1, prior |-> data[pos].v,
                     property |-> ItemProperty(node, data[pos].v)]>> \o rest

\* The item loop of _render_list_input / _render_single_dict_input: rows
\* whose Remove button is pressed are left out, the rest are re-rendered.
RECURSIVE RenderRows(_, _, _, _)
RenderRows(node, press, data, pos) ==
    IF pos > Len(data) THEN <<>>
    ELSE LET rest == RenderRows(node, press, data, pos + 1)
             item == IF node.shape = "list" THEN RenderListItem(data[pos])
                     ELSE RenderDictItem(data[pos])
         IN  IF Removed(node, press, pos - 1) THEN rest
             ELSE IF node.shape = "dict" /\ item.k \in RowKeys(rest)
             THEN rest
             ELSE <<item>> \o rest

\* The rows _render_list_input iterates: Add is rendered always, Clear when
\* allowed.
ListData(node, press, stored) ==
    LET added == RenderListAddButton(press.b = "add", stored)
    IN  IF ClearButtonAllowed(node)
        THEN RenderClearButton(press.b = "clear", added)
        ELSE added

\* _render_single_dict_input renders its Add button under
\* _clear_button_allowed(property).
DictAddRendered(node, len) == ClearButtonAllowed(node)

\* The rows _render_single_dict_input iterates.
DictData(node, press, stored) ==
    LET added == IF DictAddRendered(node, Len(stored))
                 THEN RenderDictAddButton(press.b = "add", stored)
                 ELSE stored
    IN  IF ClearButtonAllowed(node)
        THEN RenderClearButton(press.b = "clear", added)
        ELSE added

CollData(node, press, stored) ==
    IF node.shape = "list" THEN ListData(node, press, stored)
    ELSE DictData(node, press, stored)

\* Indices whose row got a Remove button in the render.
RemoveOffered(node, data) ==
    {i \in 0..(Len(data) - 1) : ~RemoveButtonAllowed(i, node)}

\* Whether the Add button is on the page after the render: the list
\* renderer empties its placeholder after a non-empty item loop when
\* _add_button_allowed(len(object_list)) fails.
AddShown(node, data, out) ==
    IF node.shape = "list"
    THEN (IF Len(data) > 0 THEN AddButtonAllowed(Len(out), node) ELSE TRUE)
    ELSE DictAddRendered(node, Len(data))

NoButtons == [add |-> FALSE, clear |-> FALSE, remove |-> {}]

NoRender == [press |-> NoPress, before |-> <<>>, data |-> <<>>, offered |-> {},
             entered |-> <<>>, failed |-> 0, logged |-> 0, raised |-> FALSE]

\* A render in which every st.button call raises (a button inside st.form,
\* a duplicate widget key).  failed counts the calls that raised up to the
\* one that leaves the renderer, logged those whose handler logged it.
FailedRender(raised, out, failed, logged, reached) ==
    [raised |-> raised, out |-> out, failed |-> failed, logged |-> logged,
     reached |-> reached]

\* The item loop when st.button raises: rows without a Remove button are
\* rendered; the first row that gets one raises out of _render_list_item /
\* _render_dict_item, which have no handler around the button.
FailingRows(node, data, failed, logged) ==
    LET offered == RemoveOffered(node, data)
        first == CHOOSE i \in offered : \A j \in offered : i <= j
    IN  IF offered = {}
        THEN FailedRender(FALSE, RenderRows(node, NoPress, data, 1), failed, logged,
                          Len(data))
        ELSE FailedRender(TRUE, data, failed + 1, logged, first)

\* _render_list_input when st.button raises: _render_list_add_button and
\* _render_list_clear_button catch the exception, log it and hand the
\* list back.
FailingListRender(node, stored) ==
    IF ClearButtonAllowed(node) THEN FailingRows(node, stored, 2, 2)
    ELSE FailingRows(node, stored, 1, 1)

\* _render_single_dict_input when st.button raises: _render_dict_add_button
\* has no handler.
FailingDictRender(node, stored) ==
    IF DictAddRendered(node, Len(stored))
    THEN FailedRender(TRUE, stored, 1, 0, 0)
    ELSE FailingRows(node, stored, 0, 0)

FailingRender(node, stored) ==
    IF node.shape = "list" THEN FailingListRender(node, stored)
    ELSE FailingDictRender(node, stored)

\* What the user can press: nothing, or a button the last render left.
\* ------------------------------------------------ a list of objects

\* The modelled form: property "a" is a string, property "rows" a list of
\* objects whose one property "tags" is a list of strings.
RowsFormProps == {"a", "rows"}

\* self._key + "-" + parent_key: what _render_list_item puts in front of
\* "." + str(index) to key the widgets of an item of "rows".
RowsItemKey == "K-rows"

\* Longest list of rows, and of tags in a row, the renders build.
MaxRows == 3

MaxTags == 2

RowV(tags) == MapV([p \in {"tags"} |-> ListV(tags)])

\* What the user presses in a render of the form: nothing, the Add button
\* of "rows", the Remove button of row i, or the Add button of the tags of
\* row i.
RowPresses(rows) ==
    {NoPress}
      \cup (IF Len(rows) < MaxRows THEN {Press("add", 0)} ELSE {})
      \cup {Press("remove", i) : i \in 0..(Len(rows) - 1)}
      \cup {Press("add_tag", i) : i \in {j \in 0..(Len(rows) - 1) :
                                           Len(rows[j + 1].m["tags"].s) < MaxTags}}

\* _render_list_input for the tags of the row at index (key =
\* RowsItemKey.index.tags): the read of the stored list under that key,
\* then the list seeded from the row's init_value, Add, and each tag
\* rendered as a string item.
RenderTags(st, row, index, press) ==
    LET read == GetValueFromState(st, <<RowsItemKey, StrOf(index), "tags">>)
        init == IF IsMap(row) /\ "tags" \in DOMAIN row.m THEN row.m["tags"].s ELSE <<>>
        data == IF read.result # NoneV THEN read.result.s ELSE init
        added == IF press = Press("add_tag", index) THEN Append(data, NoneV) ELSE data
    IN  [state |-> read.val,
         tags |-> [i \in 1..Len(added) |-> RenderStringItem(added[i])]]

\* The item loop of _render_list_input for "rows" from position pos on:
\* each row that is not removed is rendered as an object through
\* _render_list_item, _render_single_object_input and
\* _render_object_input.
RECURSIVE RenderRowItems(_, _, _, _)
RenderRowItems(st, data, press, pos) ==
    IF pos > Len(data) THEN [state |-> st, rows |-> <<>>]
    ELSE IF press = Press("remove", pos - 1)
    THEN RenderRowItems(st, data, press, pos + 1)
    ELSE LET item == RenderTags(st, IF Falsy(data[pos]) THEN NoneV ELSE data[pos],
                                pos - 1, press)
             rest == RenderRowItems(item.state, data, press, pos + 1)
         IN  [state |-> rest.state, rows |-> <<RowV(item.tags)>> \o rest.rows]

\* The rows stored under "rows", [] when nothing is stored.
StoredRows(st) ==
    LET read == GetValueFromState(st, <<"rows">>).result
    IN  IF read # NoneV THEN read.s ELSE <<>>

\* The property loop of render_ui on the form: "a" is stored, then "rows"
\* is rendered as a list and the list it returns is stored.
RenderRowsForm(st, aval, press) ==
    LET afterA == StoreValueInState(st, <<"a">>, aval).val
        stored == StoredRows(afterA)
        data == IF press = Press("add", 0) THEN Append(stored, NoneV) ELSE stored
        r == RenderRowItems(afterA, data, press, 1)
    IN  StoreValueInState(r.state, <<"rows">>, ListV(r.rows)).val

\* ------------------------------------------------ schema predicates

\* A schema node is a record; a key the schema does not carry is "none"
\* (type, format, $ref, allOf[0].$ref), <<>> (enum) or a record with
\* present = FALSE (items, oneOf, anyOf).
NoItems == [present |-> FALSE, asList |-> FALSE, type |-> "none",
            format |-> "none", hasEnum |-> FALSE, ref |-> "none"]

\* "items": {...}, or "items": [{...}] with asList
Items(asList, type, format, hasEnum, ref) ==
    [present |-> TRUE, asList |-> asList, type |-> type, format |-> format,
     hasEnum |-> hasEnum, ref |-> ref]

\* One branch of oneOf / anyOf.
Branch(type, ref, hasAddProps, items) ==
    [type |-> type, ref |-> ref, hasAddProps |-> hasAddProps, items |-> items]

NoUnion == [present |-> FALSE, br |-> <<>>]

Union(br) == [present |-> TRUE, br |-> br]

\* The references table ($defs) of the modelled schema.
Def(type, hasProps, enum) == [type |-> type, hasProps |-> hasProps, enum |-> enum]

RefNames == {"Obj", "Obj2", "Color", "Flag", "Mixed", "Str"}

Refs ==
    [n \in RefNames |->
        CASE n = "Obj" -> Def("object", TRUE, <<>>)
          [] n = "Obj2" -> Def("object", TRUE, <<>>)
          [] n = "Color" -> Def("string", FALSE, <<"a", "b">>)
          [] n = "Flag" -> Def("boolean", FALSE, <<"t", "f">>)
          [] n = "Mixed" -> Def("none", FALSE, <<"a", "1">>)
          [] n = "Str" -> Def("string", FALSE, <<>>)]

\* A node with no key at all.
EmptyNode ==
    [type |-> "none", format |-> "none", enum |-> <<>>, ref |-> "none",
     allOf |-> "none", uniqueItems |-> FALSE, items |-> NoItems,
     hasAddProps |-> FALSE, oneOf |-> NoUnion, anyOf |-> NoUnion,
     init |-> "none", default |-> "none"]

\* The node _render_single_reference hands back to _render_property: the
\* referenced definition itself.
NodeOfDef(d) == [EmptyNode EXCEPT !.type = d.type, !.enum = d.enum]

\* schema_utils.resolve_reference: references[name], KeyError when missing.
Resolves(name) == name \in DOMAIN Refs

\* schema_utils.get_single_reference_item: $ref, else allOf[0].$ref; "none"
\* stands for the KeyError of a node with neither.
SingleReferenceName(n) == IF n.ref # "none" THEN n.ref ELSE n.allOf

IsSingleStringProperty(n) == n.type = "string"

IsSingleColorProperty(n) == n.type = "string" /\ n.format = "color"

IsSingleDatetimeProperty(n) ==
    n.type = "string" /\ n.format \in {"date-time", "time", "date"}

IsSingleBooleanProperty(n) == n.type = "boolean"

IsSingleNumberProperty(n) == n.type \in {"integer", "number"}

IsSingleFileProperty(n) == n.type = "string" /\ n.format = "byte"

\* schema_utils.is_multi_enum_property: both lookups are inside try/except.
IsMultiEnumProperty(n) ==
    /\ n.type = "array"
    /\ n.uniqueItems
    /\ n.items.present
    /\ \/ n.items.hasEnum
       \/ (n.items.ref # "none" /\ Resolves(n.items.ref)
             /\ Refs[n.items.ref].enum # <<>>)

\* schema_utils.is_single_enum_property
IsSingleEnumProperty(n) ==
    \/ n.enum # <<>>
    \/ LET name == SingleReferenceName(n)
       IN  name # "none" /\ Resolves(name) /\ Refs[name].enum # <<>>

IsSingleDictProperty(n) == n.type = "object" /\ n.hasAddProps

IsSingleReference(n) == n.type = "none" /\ n.ref # "none"

IsMultiFileProperty(n) ==
    n.type = "array" /\ n.items.present /\ n.items.format = "byte"

\* schema_utils.is_single_object
IsSingleObject(n) ==
    LET name == SingleReferenceName(n)
    IN  /\ name # "none"
        /\ Resolves(name)
        /\ Refs[name].type = "object"
        /\ Refs[name].hasProps

\* schema_utils.is_union_property: oneOf when the node has it, else anyOf.
UnionBranches(n) == IF n.oneOf.present THEN n.oneOf ELSE n.anyOf

IsUnionProperty(n) ==
    LET u == UnionBranches(n)
    IN  /\ u.present
        /\ Len(u.br) > 0
        /\ \A i \in 1..Len(u.br) : IsSingleReference(u.br[i])

Primitive == {"string", "number", "integer"}

ListCheck(res, raised, node) == [res |-> res, raised |-> raised, node |-> node]

\* The item schema is_property_list_and_object looks at: items, or the items
\* of anyOf[0] when the node has none of its own.
ListItemSchema(n) ==
    IF n.items.present THEN n.items ELSE n.anyOf.br[1].items

\* A list test that returns right after rewriting a primitive reference.
ListCheckReturnsEarly(n) ==
    IF n.type # "array" \/ ~n.items.present THEN ListCheck(FALSE, "none", n)
    ELSE LET item == n.items
             plain == [item EXCEPT !.asList = FALSE]
         IN  IF item.ref # "none"
             THEN IF ~Resolves(item.ref) \/ Refs[item.ref].type = "none"
                  THEN ListCheck(FALSE, "KeyError", n)
                  ELSE IF Refs[item.ref].type \in Primitive
                  THEN ListCheck(FALSE, "none",
                         [n EXCEPT !.items = [item EXCEPT !.ref = "none",
                                                !.type = Refs[item.ref].type]])
                  ELSE IF Refs[item.ref].type # "object"
                  THEN ListCheck(FALSE, "TypeError", n)
                  ELSE ListCheck(Refs[item.ref].hasProps, "none",
                                 [n EXCEPT !.items = plain])
             ELSE IF item.type \in Primitive
             THEN ListCheck(TRUE, "none", [n EXCEPT !.items = plain])
             ELSE ListCheck(FALSE, "none", n)

\* schema_utils.is_property_list_and_object.  A referenced item type is
\* resolved outside any try: a missing reference or a definition without
\* "type" raises KeyError, a type that is neither primitive nor object
\* raises TypeError.  A primitive reference is rewritten in place.
IsPropertyListAndObject(n) ==
    IF n.type # "array" THEN ListCheck(FALSE, "none", n)
    ELSE IF ~n.items.present
            /\ ~(n.anyOf.present /\ Len(n.anyOf.br) > 0 /\ n.anyOf.br[1].items.present)
    THEN ListCheck(FALSE, "none", n)
    ELSE LET item == ListItemSchema(n)
             plain == [item EXCEPT !.asList = FALSE]
         IN  IF item.ref # "none"
             THEN IF ~Resolves(item.ref) \/ Refs[item.ref].type = "none"
                  THEN ListCheck(FALSE, "KeyError", n)
                  ELSE IF Refs[item.ref].type \in Primitive
                  THEN ListCheck(TRUE, "none",
                         [n EXCEPT !.items = [plain EXCEPT !.ref = "none",
                                                !.type = Refs[item.ref].type]])
                  ELSE IF Refs[item.ref].type # "object"
                  THEN ListCheck(FALSE, "TypeError", n)
                  ELSE ListCheck(Refs[item.ref].hasProps, "none",
                                 [n EXCEPT !.items = plain])
             ELSE IF item.type \in Primitive
             THEN ListCheck(TRUE, "none", [n EXCEPT !.items = plain])
             ELSE ListCheck(FALSE, "none", n)

\* ------------------------------------------------ predicates as calls

\* What a call of a predicate gives: its answer, or the exception that
\* leaves it.
Answer(res) == [res |-> res, raised |-> "none"]

Raises(exc) == [res |-> FALSE, raised |-> exc]

\* try: ... except Exception: return False
Caught(call) == IF call.raised # "none" THEN Answer(FALSE) ELSE call

\* resolve_reference(name, references)["enum"]: KeyError when the name is
\* not in the table or the definition has no "enum".
ReferencedEnum(name) ==
    IF name = "none" \/ ~Resolves(name) THEN Raises("KeyError")
    ELSE IF Refs[name].enum = <<>> THEN Raises("KeyError")
    ELSE Answer(TRUE)

\* is_single_enum_property as a call.
SingleEnumCall(n) ==
    IF n.enum # <<>> THEN Answer(TRUE)
    ELSE Caught(ReferencedEnum(SingleReferenceName(n)))

\* get_property_items(property): property["items"] raises KeyError when
\* the node has no items.
PropertyItems(n) == IF n.items.present THEN Answer(TRUE) ELSE Raises("KeyError")

\* is_multi_enum_property as a call: the literal lookup, then the
\* referenced one, each in its own try.
MultiEnumCall(n) ==
    IF n.type # "array" THEN Answer(FALSE)
    ELSE IF ~n.uniqueItems THEN Answer(FALSE)
    ELSE LET literal == IF PropertyItems(n).raised # "none" THEN PropertyItems(n)
                        ELSE IF n.items.hasEnum THEN Answer(TRUE)
                        ELSE Raises("KeyError")
             referenced == IF PropertyItems(n).raised # "none" THEN PropertyItems(n)
                           ELSE ReferencedEnum(n.items.ref)
         IN  IF literal.raised = "none" THEN literal ELSE Caught(referenced)

\* The body of is_single_object: the definition's "type" and "properties".
ReferencedObject(name) ==
    IF name = "none" \/ ~Resolves(name) THEN Raises("KeyError")
    ELSE IF Refs[name].type = "none" THEN Raises("KeyError")
    ELSE IF Refs[name].type # "object" THEN Answer(FALSE)
    ELSE Answer(Refs[name].hasProps)

\* is_single_object as a call.
SingleObjectCall(n) == Caught(ReferencedObject(SingleReferenceName(n)))

\* is_union_property as a call: no lookup in the references table.
UnionCall(n) == Answer(IsUnionProperty(n))

\* is_property_list_and_object as a call.
ListCall(n) ==
    LET c == IsPropertyListAndObject(n)
    IN  IF c.raised # "none" THEN Raises(c.raised) ELSE Answer(c.res)

\* Every predicate of schema_utils applied to one node.
Classify(n) ==
    [enum |-> SingleEnumCall(n),
     multiEnum |-> MultiEnumCall(n),
     object |-> SingleObjectCall(n),
     union |-> UnionCall(n),
     list |-> ListCall(n),
     dict |-> Answer(IsSingleDictProperty(n)),
     string |-> Answer(IsSingleStringProperty(n)),
     color |-> Answer(IsSingleColorProperty(n)),
     datetime |-> Answer(IsSingleDatetimeProperty(n)),
     boolean |-> Answer(IsSingleBooleanProperty(n)),
     number |-> Answer(IsSingleNumberProperty(n)),
     file |-> Answer(IsSingleFileProperty(n)),
     multiFile |-> Answer(IsMultiFileProperty(n)),
     reference |-> Answer(IsSingleReference(n))]

\* ------------------------------------------------ the field dispatcher

\* The head of _render_property: a node without type takes type and
\* additionalProperties from anyOf[0]; an empty first item schema of a
\* tuple-style items list becomes {"type": "string"}.
Flatten(n) ==
    LET t == IF n.type = "none" /\ n.anyOf.present
             THEN [n EXCEPT !.type = IF n.anyOf.br[1].type # "none"
                                     THEN n.anyOf.br[1].type ELSE n.type,
                            !.hasAddProps = n.hasAddProps \/ n.anyOf.br[1].hasAddProps]
             ELSE n
    IN  IF t.items.present /\ t.items.asList
           /\ t.items = Items(TRUE, "none", "none", FALSE, "none")
        THEN [t EXCEPT !.items.type = "string"]
        ELSE t

Shapes == <<"enum", "multi_enum", "file", "multi_file", "datetime", "color",
            "boolean", "dict", "number", "string", "object", "list",
            "reference", "union", "raw_string", "unsupported">>

Selected(path, raised, node) == [path |-> path, raised |-> raised, node |-> node]

\* The chain of tests of _render_property on the flattened node: the path
\* of the first test that holds; "raised" when is_property_list_and_object
\* raises.
FirstMatch(f) ==
    LET lst == IsPropertyListAndObject(f)
        g == lst.node
    IN  IF IsSingleEnumProperty(f) THEN Selected("enum", "none", f)
        ELSE IF IsMultiEnumProperty(f) THEN Selected("multi_enum", "none", f)
        ELSE IF IsSingleFileProperty(f) THEN Selected("file", "none", f)
        ELSE IF IsMultiFileProperty(f) THEN Selected("multi_file", "none", f)
        ELSE IF IsSingleDatetimeProperty(f) THEN Selected("datetime", "none", f)
        ELSE IF IsSingleColorProperty(f) THEN Selected("color", "none", f)
        ELSE IF IsSingleBooleanProperty(f) THEN Selected("boolean", "none", f)
        ELSE IF IsSingleDictProperty(f) THEN Selected("dict", "none", f)
        ELSE IF IsSingleNumberProperty(f) THEN Selected("number", "none", f)
        ELSE IF IsSingleStringProperty(f) THEN Selected("string", "none", f)
        ELSE IF IsSingleObject(f) THEN Selected("object", "none", f)
        ELSE IF lst.raised # "none" THEN Selected("raised", lst.raised, f)
        ELSE IF lst.res THEN Selected("list", "none", g)
        ELSE IF IsSingleReference(g) THEN Selected("reference", "none", g)
        ELSE IF IsUnionProperty(g) THEN Selected("union", "none", g)
        ELSE IF g.type = "none" THEN Selected("raw_string", "none", g)
        ELSE IF g.type = "array" THEN Selected("raw_string", "none", g)
        ELSE Selected("unsupported", "none", g)

\* A dispatcher that tests for a plain string ahead of the string formats.
SelectStringFirst(n) ==
    LET f == Flatten(n)
    IN  IF ~IsSingleEnumProperty(f) /\ IsSingleStringProperty(f)
        THEN Selected("string", "none", f)
        ELSE FirstMatch(f)

\* _render_property: which renderer the node is handed to.
SelectPath(n) == FirstMatch(Flatten(n))

\* ------------------------------------------------ what a field's render raises

\* A default that json.loads accepts as an object.
ParsesAsJson(d) == d = "{}"

\* _render_single_enum_input: list.index on init_value, else on default.
EnumError(n) ==
    LET options == IF n.enum # <<>> THEN n.enum
                   ELSE Refs[SingleReferenceName(n)].enum
    IN  IF n.init # "none"
        THEN IF n.init \in Range(options) THEN "none" ELSE "ValueError"
        ELSE IF n.default # "none"
        THEN IF n.default \in Range(options) THEN "none" ELSE "ValueError"
        ELSE "none"

\* _render_object_input on a definition: definition["properties"], and
\* json.loads of a truthy default once per property.
ObjectError(d, default) ==
    IF ~d.hasProps THEN "KeyError"
    ELSE IF default # "none" /\ ~ParsesAsJson(default) THEN "JSONDecodeError"
    ELSE "none"

\* _render_union_property: every branch is resolved first; the definition
\* the user picks in the select box is rendered as an object.
UnionError(n, pick) ==
    LET br == UnionBranches(n).br
        chosen == br[IF pick <= Len(br) THEN pick ELSE 1]
    IN  IF \E i \in 1..Len(br) : ~Resolves(br[i].ref) THEN "KeyError"
        ELSE ObjectError(Refs[chosen.ref], "none")

\* An unsupported node that ends the render with an exception.
UnsupportedRaises(n) == "Exception"

\* The tail of _render_property on a node no test matched: a warning on
\* the page, logger.error, and None returned.
UnsupportedError(n) == "none"

RECURSIVE RenderProperty(_, _)
\* _render_property and the renderer it selects: the path taken and the
\* exception that leaves it ("none" when the field is rendered).
RenderProperty(n, pick) ==
    LET sel == SelectPath(n)
        field(err) == [path |-> sel.path, err |-> err]
    IN  CASE sel.path = "raised" -> field(sel.raised)
          [] sel.path = "enum" -> field(EnumError(sel.node))
          [] sel.path = "object" ->
                field(ObjectError(Refs[SingleReferenceName(sel.node)],
                                  sel.node.default))
          [] sel.path = "reference" ->
                IF ~Resolves(sel.node.ref) THEN field("KeyError")
                ELSE field(RenderProperty(NodeOfDef(Refs[sel.node.ref]), pick).err)
          [] sel.path = "union" -> field(UnionError(sel.node, pick))
          [] sel.path = "unsupported" -> field(UnsupportedError(sel.node))
          [] OTHER -> field("none")

RECURSIVE RenderFields(_, _, _)
\* The property loop of render_ui from field i on: an exception leaving a
\* field ends the loop, the fields after it are not rendered.
RenderFields(fs, pick, i) ==
    IF i > Len(fs) THEN [rendered |-> <<>>, err |-> "none"]
    ELSE LET r == RenderProperty(fs[i], pick)
         IN  IF r.err # "none" THEN [rendered |-> <<>>, err |-> r.err]
             ELSE LET rest == RenderFields(fs, pick, i + 1)
                  IN  [rendered |-> <<r.path>> \o rest.rendered, err |-> rest.err]

\* ------------------------------------------------ schema nodes checked

Types == {"none", "string", "integer", "number", "boolean", "object", "array", "null"}

Formats == {"none", "byte", "date", "color", "multi-line"}

EnumLists == {<<>>, <<"a", "b">>}

\* <<$ref, allOf[0].$ref>>
RefPairs == {<<"none", "none">>, <<"Obj", "none">>, <<"Color", "none">>,
             <<"Gone", "none">>, <<"Str", "none">>, <<"none", "Obj">>,
             <<"none", "Color">>}

ItemRefs == {"Obj", "Color", "Flag", "Gone", "Mixed", "Str"}

ItemSchemas ==
    {NoItems,
     Items(FALSE, "string", "none", FALSE, "none"),
     Items(FALSE, "string", "byte", FALSE, "none"),
     Items(FALSE, "string", "none", TRUE, "none"),
     Items(FALSE, "boolean", "none", FALSE, "none"),
     Items(TRUE, "none", "none", FALSE, "none"),
     Items(TRUE, "integer", "none", FALSE, "none")}
      \cup {Items(FALSE, "none", "none", FALSE, r) : r \in ItemRefs}

RefBranch(r) == Branch("none", r, FALSE, NoItems)

TypeBranch(t) == Branch(t, "none", FALSE, NoItems)

OneOfs == {NoUnion,
           Union(<<RefBranch("Obj"), RefBranch("Obj2")>>),
           Union(<<RefBranch("Obj"), RefBranch("Gone")>>),
           Union(<<RefBranch("Obj"), TypeBranch("string")>>)}

AnyOfs == {NoUnion,
           Union(<<RefBranch("Obj"), RefBranch("Obj2")>>),
           Union(<<RefBranch("Obj"), TypeBranch("null")>>),
           Union(<<TypeBranch("string"), TypeBranch("null")>>),
           Union(<<Branch("object", "none", TRUE, NoItems), TypeBranch("null")>>),
           Union(<<Branch("array", "none", FALSE,
                          Items(FALSE, "string", "none", FALSE, "none")),
                   TypeBranch("null")>>),
           Union(<<Branch("array", "none", FALSE,
                          Items(FALSE, "none", "none", FALSE, "Flag")),
                   TypeBranch("null")>>)}

\* The keys a schema generator puts together: format with string, items and
\* uniqueItems with array, additionalProperties with object, a reference or
\* a union in place of a type.
WellFormed(n) ==
    /\ n.format # "none" => n.type = "string"
    /\ n.items.present => n.type = "array"
    /\ n.uniqueItems => n.type = "array"
    /\ n.hasAddProps => n.type = "object"
    /\ (n.ref # "none" \/ n.allOf # "none") => n.type \in {"none", "object"}
    /\ n.oneOf.present => (n.type = "none" /\ ~n.anyOf.present)
    /\ n.anyOf.present => n.type \in {"none", "array"}
    /\ n.enum # <<>> => n.type \in {"none", "string"}

Nodes ==
    {n \in [type : Types, format : Formats, enum : EnumLists,
            ref : {"none"}, allOf : {"none"}, uniqueItems : BOOLEAN,
            items : ItemSchemas, hasAddProps : BOOLEAN, oneOf : OneOfs,
            anyOf : AnyOfs, init : {"none"}, default : {"none"}] : WellFormed(n)}
    \cup
    {n \in [type : {"none", "object"}, format : {"none"}, enum : EnumLists,
            ref : {p[1] : p \in RefPairs}, allOf : {p[2] : p \in RefPairs},
            uniqueItems : {FALSE}, items : {NoItems}, hasAddProps : BOOLEAN,
            oneOf : {NoUnion}, anyOf : AnyOfs, init : {"none"},
            default : {"none"}] : WellFormed(n) /\ <<n.ref, n.allOf>> \in RefPairs}

\* The fields of the forms rendered: one of each failure a renderer has,
\* next to fields that render.
EnumField(init, default) ==
    [EmptyNode EXCEPT !.type = "string", !.enum = <<"a", "b">>,
                      !.init = init, !.default = default]

FormFields ==
    {[EmptyNode EXCEPT !.type = "string"],
     [EmptyNode EXCEPT !.type = "null"],
     [EmptyNode EXCEPT !.ref = "Gone"],
     [EmptyNode EXCEPT !.ref = "Str"],
     [EmptyNode EXCEPT !.type = "array",
                       !.items = Items(FALSE, "none", "none", FALSE, "Flag")],
     [EmptyNode EXCEPT !.type = "array",
                       !.items = Items(FALSE, "none", "none", FALSE, "Obj")],
     [EmptyNode EXCEPT !.oneOf = Union(<<RefBranch("Obj"), RefBranch("Obj2")>>)],
     [EmptyNode EXCEPT !.oneOf = Union(<<RefBranch("Obj"), RefBranch("Gone")>>)]}
      \cup {EnumField(i, d) : i \in {"none", "a", "c"}, d \in {"none", "a", "c"}}
      \cup {[EmptyNode EXCEPT !.allOf = "Obj", !.default = d] :
                d \in {"none", "{}", "a"}}

MaxFields == 2

Picks == 1..2

\* ------------------------------------------------ leaf renderers

\* property.get(key) is None
IsNone(v) == v.kind \in {"none", "absent"}

\* What a renderer hands its widget: the value kwarg (or index / default),
\* and which property key it came from.
Seed(source, value) == [source |-> source, value |-> value]

NoSeed == Seed("none", NoneV)

\* _render_single_string_input: truthy init_value, else truthy default,
\* else truthy example.
StringSeed(n) ==
    IF ~Falsy(n.init) THEN Seed("init", n.init)
    ELSE IF ~Falsy(n.default) THEN Seed("default", n.default)
    ELSE IF ~Falsy(n.example) THEN Seed("example", n.example)
    ELSE NoSeed

\* _render_single_color_input: the first of init_value, default, example
\* that is not None.
ColorSeed(n) ==
    IF ~IsNone(n.init) THEN Seed("init", n.init)
    ELSE IF ~IsNone(n.default) THEN Seed("default", n.default)
    ELSE IF ~IsNone(n.example) THEN Seed("example", n.example)
    ELSE NoSeed

\* number_transform: int for type integer, float for type number; the
\* modelled numbers are whole, so float(x) == x.
NumberTransform(n, v) == v

\* streamlit_kwargs["step"]: 1 for int, 0.01 for float.
Step(n) == IF n.type = "integer" THEN IntV("1") ELSE FloatV("0.01")

\* A number seeded with zero whatever its minimum.
NumberSeedIgnoresMinimum(n) ==
    IF ~IsNone(n.ws) THEN Seed("widget", NumberTransform(n, n.ws))
    ELSE IF ~IsNone(n.init) THEN Seed("init", NumberTransform(n, n.init))
    ELSE IF ~IsNone(n.default) THEN Seed("default", NumberTransform(n, n.default))
    ELSE IF n.type = "integer" THEN Seed("fallback", IntV("0"))
    ELSE Seed("fallback", Step(n))

\* _render_single_number_input: the widget's stored value when there is
\* one; else init_value, else default (each when not None), else min_value,
\* else 0 for an int and the step for a float.
NumberSeed(n) ==
    IF ~IsNone(n.ws) THEN Seed("widget", NumberTransform(n, n.ws))
    ELSE IF ~IsNone(n.init) THEN Seed("init", NumberTransform(n, n.init))
    ELSE IF ~IsNone(n.default) THEN Seed("default", NumberTransform(n, n.default))
    ELSE IF ~IsNone(n.minimum) THEN Seed("fallback", NumberTransform(n, n.minimum))
    ELSE IF n.type = "integer" THEN Seed("fallback", IntV("0"))
    ELSE Seed("fallback", Step(n))

\* _render_single_boolean_input: init_value when the key is there, else
\* default when the key is there.
BooleanSeed(n) ==
    IF n.init # Absent THEN Seed("init", n.init)
    ELSE IF n.default # Absent THEN Seed("default", n.default)
    ELSE NoSeed

\* _render_single_enum_input: the option to preselect is a truthy
\* init_value, else a default that is not None.
EnumSeed(n) ==
    IF ~Falsy(n.init) THEN Seed("init", n.init)
    ELSE IF ~IsNone(n.default) THEN Seed("default", n.default)
    ELSE NoSeed

\* _render_multi_enum_input: truthy init_value, else truthy default.
MultiEnumSeed(n) ==
    IF ~Falsy(n.init) THEN Seed("init", n.init)
    ELSE IF ~Falsy(n.default) THEN Seed("default", n.default)
    ELSE NoSeed

\* A default that fromisoformat parses.
IsoParses(d) == d # StrV(<<"b", "a", "d">>)

\* _render_single_datetime_input: truthy init_value, else a truthy default
\* parsed by fromisoformat, nothing when the parse fails.
DatetimeSeed(n) ==
    IF ~Falsy(n.init) THEN Seed("init", n.init)
    ELSE IF ~Falsy(n.default) /\ IsoParses(n.default) THEN Seed("default", n.default)
    ELSE NoSeed

LeafSeed(n) ==
    CASE n.shape = "string" -> StringSeed(n)
      [] n.shape = "color" -> ColorSeed(n)
      [] n.shape = "number" -> NumberSeed(n)
      [] n.shape = "boolean" -> BooleanSeed(n)
      [] n.shape = "enum" -> EnumSeed(n)
      [] n.shape = "multi_enum" -> MultiEnumSeed(n)
      [] n.shape = "datetime" -> DatetimeSeed(n)

\* What the widget shows when it is given no value.
WidgetDefault(n) ==
    CASE n.shape = "string" -> StrV(<<>>)
      [] n.shape = "color" -> StrV(<<"#", "0">>)
      [] n.shape = "boolean" -> BoolV("False")
      [] n.shape = "enum" -> n.enum[1]
      [] n.shape = "multi_enum" -> ListV(<<>>)
      [] n.shape = "datetime" -> StrV(<<"n", "o", "w">>)
      [] n.shape = "number" -> NoneV

Leaf(seed, value, raised, choice) ==
    [done |-> TRUE, seed |-> seed, value |-> value, raised |-> raised,
     choice |-> choice]

\* A leaf renderer with no edit by the user: the widget returns what it was
\* seeded with.  The enum renderer looks its seed up in the options first
\* (list.index raises ValueError) and returns the only option without a
\* select box when there is just one.
RenderLeaf(n) ==
    LET seed == LeafSeed(n)
    IN  IF n.shape = "enum"
        THEN IF seed.source # "none" /\ seed.value \notin Range(n.enum)
             THEN Leaf(seed, NoneV, TRUE, FALSE)
             ELSE IF Len(n.enum) = 1 THEN Leaf(seed, n.enum[1], FALSE, FALSE)
             ELSE Leaf(seed, IF seed.source = "none" THEN n.enum[1] ELSE seed.value,
                       FALSE, TRUE)
        ELSE Leaf(seed, IF seed.source = "none" THEN WidgetDefault(n) ELSE seed.value,
                  FALSE, FALSE)

\* The leaf nodes rendered.
LeafNode(shape, type, init, default, example, enum, minimum, maximum, ws) ==
    [shape |-> shape, type |-> type, init |-> init, default |-> default,
     example |-> example, enum |-> enum, minimum |-> minimum,
     maximum |-> maximum, ws |-> ws]

TextSeeds(c) == {Absent, NoneV, StrV(<<>>), StrV(<<c>>)}

EnumOptionLists ==
    {<<StrV(<<"a">>)>>, <<StrV(<<"a">>), StrV(<<"b">>)>>, <<IntV("1"), IntV("0")>>}

EnumSeeds ==
    {Absent, NoneV, StrV(<<>>), StrV(<<"a">>), StrV(<<"b">>), StrV(<<"c">>),
     IntV("0"), IntV("1")}

LeafNodes ==
    {LeafNode(shape, "string", i, d, e, <<>>, Absent, Absent, NoneV) :
        shape \in {"string", "color"}, i \in TextSeeds("i"),
        d \in TextSeeds("d"), e \in TextSeeds("e")}
    \cup
    {LeafNode("number", t, i, d, e, <<>>, lo, hi, ws) :
        t \in {"integer", "number"}, i \in {Absent, NoneV, IntV("0"), IntV("3")},
        d \in {Absent, NoneV, IntV("0"), IntV("4")}, e \in {Absent, IntV("5")},
        lo \in {Absent, IntV("0"), IntV("2")}, hi \in {Absent, IntV("10")},
        ws \in {NoneV, IntV("7")}}
    \cup
    {LeafNode("boolean", "boolean", i, d, e, <<>>, Absent, Absent, NoneV) :
        i \in {Absent, NoneV, BoolV("False"), BoolV("True")},
        d \in {Absent, NoneV, BoolV("False"), BoolV("True")},
        e \in {Absent, BoolV("True")}}
    \cup
    {LeafNode("enum", "none", i, d, e, o, Absent, Absent, NoneV) :
        i \in EnumSeeds, d \in EnumSeeds \ {StrV(<<>>)},
        e \in {Absent, StrV(<<"b">>)}, o \in EnumOptionLists}
    \cup
    {LeafNode("multi_enum", "array", i, d, e, <<StrV(<<"a">>), StrV(<<"b">>)>>,
              Absent, Absent, NoneV) :
        i \in {Absent, NoneV, ListV(<<>>), ListV(<<"a">>)},
        d \in {Absent, ListV(<<>>), ListV(<<"b">>)},
        e \in {Absent, ListV(<<"a", "b">>)}}
    \cup
    {LeafNode("datetime", "string", i, d, e, <<>>, Absent, Absent, NoneV) :
        i \in {Absent, NoneV, StrV(<<"i">>)},
        d \in {Absent, StrV(<<>>), StrV(<<"d">>), StrV(<<"b", "a", "d">>)},
        e \in {Absent, StrV(<<"e">>)}}

\* ------------------------------------------------ group_optional_fields

Strategies == {"no", "sidebar", "expander"}

\* Most fields of a form rendered.
MaxGrouped == 2

\* A string field of the model: whether the schema requires it, and the
\* value the instance passed as input holds for it.
GroupedField(required, value) == [required |-> required, value |-> value]

GroupedFields ==
    {GroupedField(r, v) : r \in BOOLEAN, v \in {NoneV, StrV(<<>>), StrV(<<"v">>)}}

\* The main loop of render_ui: the instance's value becomes the property's
\* init_value unless it is None or "".
InitFromInstance(value) ==
    IF value = NoneV \/ value = StrV(<<>>) THEN Absent ELSE value

\* The init_value a field's property carries into _render_property: a
\* field that is not required is put off to the expander loop under
\* "expander", and that loop does not read the instance.
GroupedInit(strategy, f) ==
    IF ~f.required /\ strategy = "expander" THEN Absent
    ELSE InitFromInstance(f.value)

\* The seed each field gets in a first render under a strategy.
GroupedSeeds(strategy, fs) ==
    [i \in 1..Len(fs) |->
        StringSeed(LeafNode("string", "string", GroupedInit(strategy, fs[i]),
                            Absent, Absent, <<>>, Absent, Absent, NoneV))]

\* ------------------------------------------------ one definition, many renderings

\* The definition rendered has one string property, "x".
ChildKey == "x"

\* Renderings of the definition in one form render.
MaxObjects == 3

\* What a rendering is given as init_value: None (a field without an
\* instance value, a freshly added list item) or the object's dict.
ObjectInits ==
    {NoneV} \cup {MapV([k \in {ChildKey} |-> v]) :
                     v \in {StrV(<<>>), StrV(<<"g">>), StrV(<<"h">>)}}

ChildDefaults == {Absent, StrV(<<"d">>)}

\* properties["x"] of the definition in self._schema_references: one dict,
\* shared by every rendering of the definition.
ChildProperty(init, default) ==
    LeafNode("string", "string", init, default, Absent, <<>>, Absent, Absent, NoneV)

\* _render_single_object_input and _render_object_input for one
\* rendering: the definition gets the rendering's init_value; the child
\* dict gets "init_value" only when that value is truthy, and is then
\* rendered.
RenderSharedObject(child, init) ==
    LET seeded == IF ~Falsy(init)
                  THEN [child EXCEPT !.init =
                           IF ChildKey \in DOMAIN init.m THEN init.m[ChildKey] ELSE NoneV]
                  ELSE child
    IN  [child |-> seeded, seed |-> StringSeed(seeded)]

\* The renderings of one form render from rendering i on.
RECURSIVE RenderSharedObjects(_, _, _)
RenderSharedObjects(child, inits, i) ==
    IF i > Len(inits) THEN <<>>
    ELSE LET r == RenderSharedObject(child, inits[i])
         IN  <<r.seed>> \o RenderSharedObjects(r.child, inits, i + 1)

\* ------------------------------------------------ union disambiguation

\* A str as the sequence of its characters.
CatS == <<"C", "a", "t">>

DogS == <<"D", "o", "g">>

CatfishS == CatS \o <<"f", "i", "s", "h">>

PetS == <<"P", "e", "t">>

\* t in s, for two str.
IsSubstring(t, s) ==
    \E i \in 1..(Len(s) - Len(t) + 1) : SubSeq(s, i, i + Len(t) - 1) = t

\* A branch definition of a union: its title and the enum of its
\* discriminator property.
UnionDefNames == {"Cat", "Dog", "Catfish", "Pet"}

UnionDefs ==
    [n \in UnionDefNames |->
        CASE n = "Cat" -> [title |-> CatS, kind |-> <<"cat">>]
          [] n = "Dog" -> [title |-> DogS, kind |-> <<"dog">>]
          [] n = "Catfish" -> [title |-> CatfishS, kind |-> <<"fish">>]
          [] n = "Pet" -> [title |-> PetS, kind |-> <<"cat", "dog">>]]

\* str(type(attr)) of an instance of the branch, without the "<class '...'>"
\* around the qualified name.
InstanceClassOf(name) == <<"m", ".">> \o UnionDefs[name].title

\* The least index (from 0) of a branch that passes the test: next(...) over
\* enumerate(reference_items); -1 stands for StopIteration.
FirstIndex(S) == IF S = {} THEN -1 ELSE CHOOSE i \in S : \A j \in S : i <= j

Chosen(via, index, raised) == [via |-> via, index |-> index, raised |-> raised]

\* A disambiguation that consults instance_class ahead of the discriminator.
DisambiguateInstanceClassFirst(n) ==
    LET byClass == FirstIndex({i \in 0..(Len(n.br) - 1) :
                       IsSubstring(UnionDefs[n.br[i + 1]].title, n.ic)})
        byKind == FirstIndex({i \in 0..(Len(n.br) - 1) :
                       UnionDefs[n.br[i + 1]].kind = <<n.init>>})
    IN  IF n.init # "none" /\ n.ic # <<>>
        THEN Chosen("instance_class", byClass, byClass = -1)
        ELSE IF n.init # "none" /\ n.disc
        THEN Chosen("discriminator", byKind, byKind = -1)
        ELSE Chosen("none", 0, FALSE)

\* _render_union_property, the choice of ref_index: with an init value and
\* a discriminator the first branch whose discriminator enum equals
\* [init_value[disc_prop]]; else with an init value and instance_class the
\* first branch whose title occurs in instance_class; else no index.
Disambiguate(n) ==
    LET byKind == FirstIndex({i \in 0..(Len(n.br) - 1) :
                       UnionDefs[n.br[i + 1]].kind = <<n.init>>})
        byClass == FirstIndex({i \in 0..(Len(n.br) - 1) :
                       IsSubstring(UnionDefs[n.br[i + 1]].title, n.ic)})
    IN  IF n.init # "none" /\ n.disc
        THEN Chosen("discriminator", byKind, byKind = -1)
        ELSE IF n.init # "none" /\ n.ic # <<>>
        THEN Chosen("instance_class", byClass, byClass = -1)
        ELSE Chosen("none", 0, FALSE)

\* name_reference_mapping: title -> the last branch with that title; the
\* select box offers the titles in order of first appearance.
OptionTitles(br) ==
    LET first(i) == \A j \in 1..(i - 1) :
                        UnionDefs[br[j]].title # UnionDefs[br[i]].title
        idx == {i \in 1..Len(br) : first(i)}
        RECURSIVE take(_)
        take(i) == IF i > Len(br) THEN <<>>
                   ELSE IF i \in idx THEN <<UnionDefs[br[i]].title>> \o take(i + 1)
                   ELSE take(i + 1)
    IN  take(1)

BranchOfTitle(br, title) ==
    br[CHOOSE i \in 1..Len(br) :
          /\ UnionDefs[br[i]].title = title
          /\ \A j \in (i + 1)..Len(br) : UnionDefs[br[j]].title # title]

\* _render_union_property with no stored widget state: the branch given the
\* init value and the branch the select box (index = ref_index) selects
\* and _render_object_input renders.
RenderUnionProperty(n) ==
    LET c == Disambiguate(n)
        options == OptionTitles(n.br)
    IN  IF c.raised
        THEN [done |-> TRUE, via |-> c.via, index |-> c.index,
              raised |-> TRUE, seeded |-> "none", selected |-> "none"]
        ELSE [done |-> TRUE, via |-> c.via, index |-> c.index, raised |-> FALSE,
              seeded |-> IF c.via = "none" THEN "none" ELSE n.br[c.index + 1],
              selected |-> BranchOfTitle(n.br, options[c.index + 1])]

\* The unions rendered: two or three branches with distinct discriminator
\* values.
MaxBranches == 3

UnionBranchLists ==
    {br \in UNION {[1..k -> UnionDefNames] : k \in 2..MaxBranches} :
        \A i, j \in 1..Len(br) :
            i # j => Range(UnionDefs[br[i]].kind) \cap Range(UnionDefs[br[j]].kind) = {}}

UnionNode(br, disc, init, ic) == [br |-> br, disc |-> disc, init |-> init, ic |-> ic]

\* No instance value; or the dumped value of an instance of one of the
\* branches, with or without the instance_class render_ui attaches.
UnionNodes ==
    {UnionNode(br, disc, "none", <<>>) : br \in UnionBranchLists, disc \in BOOLEAN}
    \cup
    UNION {UNION {{UnionNode(br, disc, UnionDefs[br[i]].kind[k], ic) :
                      disc \in BOOLEAN, k \in 1..Len(UnionDefs[br[i]].kind),
                      ic \in {<<>>, InstanceClassOf(br[i])}} :
                  i \in 1..Len(br)} : br \in UnionBranchLists}

\* ------------------------------------------------------ initial states

NoOp == [op |-> "none", key |-> <<>>, val |-> NoneV, before |-> EmptyMapV,
         result |-> NoneV, raised |-> FALSE]

NoAct == [act |-> "none", form |-> "", submit |-> FALSE,
          returnModel |-> FALSE, verdict |-> Accepted,
          result |-> RenderResult("state", NoWarning)]

StoreIdle ==
    /\ pstate = EmptyMapV
    /\ sop = NoOp
    /\ nops = 0

SessIdle ==
    /\ session = EmptyFn
    /\ sact = NoAct

CollIdle ==
    /\ cnode = [shape |-> "list", readOnly |-> FALSE, minItems |-> 0,
                maxItems |-> DefaultMaxItems]
    /\ cinit = <<>>
    /\ coll = <<>>
    /\ shown = NoButtons
    /\ cact = NoRender
    /\ chist = <<>>

NoSelection(n) == [done |-> FALSE, path |-> "none", raised |-> "none", node |-> n]

DispIdle ==
    /\ dnode = EmptyNode
    /\ dres = NoSelection(EmptyNode)

NoFormRender == [done |-> FALSE, pick |-> 1, rendered |-> <<>>, err |-> "none"]

FormIdle ==
    /\ fields = <<>>
    /\ fres = NoFormRender

NoUnionRender == [done |-> FALSE, via |-> "none", index |-> 0, raised |-> FALSE,
                  seeded |-> "none", selected |-> "none"]

UnionIdle ==
    /\ unode = UnionNode(<<>>, FALSE, "none", <<>>)
    /\ ures = NoUnionRender

NoLeafRender == [done |-> FALSE, seed |-> NoSeed, value |-> NoneV,
                 raised |-> FALSE, choice |-> FALSE]

LeafIdle ==
    /\ lnode = LeafNode("string", "string", Absent, Absent, Absent, <<>>,
                        Absent, Absent, NoneV)
    /\ lres = NoLeafRender

AgainIdle == dres2 = NoSelection(EmptyNode)

NoFieldTrace == FieldTrace(NoneV, NoneV, FALSE)

NoObjectRender == [act |-> "none", ignoreEmpty |-> FALSE, top |-> NoFieldTrace,
                   nested |-> [p \in Range(ObjectProps) |-> NoFieldTrace]]

ObjIdle ==
    /\ ostate = EmptyMapV
    /\ oact = NoObjectRender

NoClassification == [done |-> FALSE, calls |-> Classify(EmptyNode)]

PredIdle ==
    /\ pnode = EmptyNode
    /\ pres = NoClassification

NestIdle ==
    /\ nstate = EmptyMapV
    /\ nact = NoPress

NoSharedRender == [done |-> FALSE, seeds |-> <<>>]

SharedIdle ==
    /\ rinits = <<>>
    /\ rdefault = Absent
    /\ rres = NoSharedRender

NoGroupedRender == [done |-> FALSE, seeds |-> <<>>]

GroupIdle ==
    /\ gfields = <<>>
    /\ gres = [s \in Strategies |-> NoGroupedRender]

\* ------------------------------------------- the store's operations

StoreInit == StoreIdle /\ SessIdle /\ CollIdle /\ DispIdle /\ FormIdle /\ UnionIdle /\ LeafIdle /\ AgainIdle /\ ObjIdle /\ PredIdle /\ NestIdle /\ SharedIdle /\ GroupIdle

\* InputUI._store_value(key, value)
StoreValue(k, v) ==
    LET r == StoreValueInState(pstate, k, v)
    IN  /\ nops < MaxStoreOps
        /\ nops' = nops + 1
        /\ pstate' = r.val
        /\ sop' = [op |-> "store", key |-> k, val |-> v, before |-> pstate,
                   result |-> NoneV, raised |-> r.raised]
        /\ UNCHANGED <<sessVars, collVars, dispVars, formVars, unionVars, leafVars, againVars, objVars, predVars, nestVars, sharedVars, groupVars>>

\* InputUI._get_value(key)
GetValue(k) ==
    LET r == GetValueFromState(pstate, k)
    IN  /\ nops < MaxStoreOps
        /\ nops' = nops + 1
        /\ pstate' = r.val
        /\ sop' = [op |-> "get", key |-> k, val |-> NoneV, before |-> pstate,
                   result |-> r.result, raised |-> r.raised]
        /\ UNCHANGED <<sessVars, collVars, dispVars, formVars, unionVars, leafVars, againVars, objVars, predVars, nestVars, sharedVars, groupVars>>

StoreNext ==
    \/ \E k \in Keys, v \in StoredVals : StoreValue(k, v)
    \/ \E k \in Keys : GetValue(k)

\* ------------------------------------------- InputUI on the session

SessionInit == StoreIdle /\ SessIdle /\ CollIdle /\ DispIdle /\ FormIdle /\ UnionIdle /\ LeafIdle /\ AgainIdle /\ ObjIdle /\ PredIdle /\ NestIdle /\ SharedIdle /\ GroupIdle

ConstructResets(sess, f) == MapSet(sess, f, EmptyMapV)

\* InputUI.__init__: the form's state is set to {} only when the session
\* holds none for the form key.
ConstructState(sess, f) ==
    IF f \notin DOMAIN sess THEN MapSet(sess, f, EmptyMapV) ELSE sess

Construct(f) ==
    /\ session' = ConstructState(session, f)
    /\ sact' = [NoAct EXCEPT !.act = "construct", !.form = f]
    /\ UNCHANGED <<storeVars, collVars, dispVars, formVars, unionVars, leafVars, againVars, objVars, predVars, nestVars, sharedVars, groupVars>>

\* InputUI.render_ui on a constructed form.
RenderUI(f, vals, ignoreEmpty, returnModel, verdict) ==
    /\ f \in DOMAIN session
    /\ session' = MapSet(session, f, RenderProps(session[f], vals, ignoreEmpty, 1))
    /\ sact' = [act |-> "render", form |-> f, submit |-> FALSE,
                returnModel |-> returnModel, verdict |-> verdict,
                result |-> ValidateAndReturn(returnModel, verdict)]
    /\ UNCHANGED <<storeVars, collVars, dispVars, formVars, unionVars, leafVars, againVars, objVars, predVars, nestVars, sharedVars, groupVars>>

SessionNext ==
    \/ \E f \in FormKeys : Construct(f)
    \/ \E f \in FormKeys, vals \in [Range(Props) -> WidgetVals],
          ignoreEmpty \in BOOLEAN, verdict \in Verdicts :
              RenderUI(f, vals, ignoreEmpty, TRUE, verdict)
    \/ \E f \in FormKeys, vals \in [Range(Props) -> WidgetVals],
          ignoreEmpty \in BOOLEAN :
              RenderUI(f, vals, ignoreEmpty, FALSE, Accepted)

\* ------------------------------------------- pydantic_form

PydanticFormInit == StoreIdle /\ SessIdle /\ CollIdle /\ DispIdle /\ FormIdle /\ UnionIdle /\ LeafIdle /\ AgainIdle /\ ObjIdle /\ PredIdle /\ NestIdle /\ SharedIdle /\ GroupIdle

\* pydantic_form: InputUI(key, model, return_model=True).render_ui() inside
\* st.form, then the submit button.
PydanticForm(f, vals, ignoreEmpty, verdict, submit) ==
    LET constructed == ConstructState(session, f)
    IN  /\ session' = MapSet(constructed, f,
                          RenderProps(constructed[f], vals, ignoreEmpty, 1))
        /\ sact' = [act |-> "form", form |-> f, submit |-> submit,
                    returnModel |-> TRUE, verdict |-> verdict,
                    result |-> FormReturn(ValidateAndReturn(TRUE, verdict), submit)]
        /\ UNCHANGED <<storeVars, collVars, dispVars, formVars, unionVars, leafVars, againVars, objVars, predVars, nestVars, sharedVars, groupVars>>

PydanticFormNext ==
    \E f \in FormKeys, vals \in [Range(Props) -> WidgetVals],
       ignoreEmpty \in BOOLEAN, verdict \in Verdicts, submit \in BOOLEAN :
           PydanticForm(f, vals, ignoreEmpty, verdict, submit)

\* ------------------------------------------- renders of a nested object

ObjectInit == StoreIdle /\ SessIdle /\ CollIdle /\ DispIdle /\ FormIdle /\ UnionIdle /\ LeafIdle /\ AgainIdle /\ ObjIdle /\ PredIdle /\ NestIdle /\ SharedIdle /\ GroupIdle

\* InputUI.render_ui (pydantic_input) on the nested model.
RenderObject(val, nvals, ignoreEmpty) ==
    LET r == RenderNestedProps(ostate, val, nvals, ignoreEmpty)
    IN  /\ ostate' = r.state
        /\ oact' = [act |-> "render", ignoreEmpty |-> ignoreEmpty,
                    top |-> FieldTrace(val, Lookup(ostate, <<"a">>).val,
                                       Lookup(r.afterA, <<"a">>) = [found |-> TRUE, val |-> val]),
                    nested |-> [p \in Range(ObjectProps) |->
                        FieldTrace(nvals[p], Lookup(r.afterA, <<ObjectKey, p>>).val,
                                   p \in DOMAIN r.object.m)]]
        /\ UNCHANGED <<storeVars, sessVars, collVars, dispVars, formVars, unionVars, leafVars, againVars, predVars, nestVars, sharedVars, groupVars>>

ObjectNext ==
    \E val \in WidgetVals, nvals \in [Range(ObjectProps) -> NestedVals],
       ignoreEmpty \in BOOLEAN : RenderObject(val, nvals, ignoreEmpty)

\* ------------------------------------------- schema predicates on a node

PredicatesInit ==
    /\ pnode \in Nodes
    /\ pres = NoClassification
    /\ StoreIdle
    /\ SessIdle
    /\ CollIdle
    /\ DispIdle
    /\ FormIdle
    /\ UnionIdle
    /\ LeafIdle
    /\ AgainIdle
    /\ ObjIdle
    /\ NestIdle
    /\ SharedIdle
    /\ GroupIdle

\* The predicates of schema_utils called on the node.
ClassifyNode ==
    /\ ~pres.done
    /\ pres' = [done |-> TRUE, calls |-> Classify(pnode)]
    /\ UNCHANGED <<pnode, storeVars, sessVars, collVars, dispVars, formVars, unionVars, leafVars, againVars, objVars, nestVars, sharedVars, groupVars>>

PredicatesNext == ClassifyNode

\* ------------------------------------------- renders of a list of objects

RowsInit == StoreIdle /\ SessIdle /\ CollIdle /\ DispIdle /\ FormIdle /\ UnionIdle /\ LeafIdle /\ AgainIdle /\ ObjIdle /\ PredIdle /\ NestIdle /\ SharedIdle /\ GroupIdle

\* InputUI.render_ui (pydantic_input) on the form.
RenderRowsUI(aval, press) ==
    /\ nstate' = RenderRowsForm(nstate, aval, press)
    /\ nact' = press
    /\ UNCHANGED <<storeVars, sessVars, collVars, dispVars, formVars, unionVars, leafVars, againVars, objVars, predVars, sharedVars, groupVars>>

RowsNext ==
    \E aval \in WidgetVals, press \in RowPresses(StoredRows(nstate)) :
        RenderRowsUI(aval, press)

\* ------------------------------------------- renderings of one definition

SharedInit ==
    /\ rinits \in UNION {[1..k -> ObjectInits] : k \in 1..MaxObjects}
    /\ rdefault \in ChildDefaults
    /\ rres = NoSharedRender
    /\ StoreIdle
    /\ SessIdle
    /\ CollIdle
    /\ DispIdle
    /\ FormIdle
    /\ UnionIdle
    /\ LeafIdle
    /\ AgainIdle
    /\ ObjIdle
    /\ PredIdle
    /\ NestIdle
    /\ GroupIdle

\* One form render: the definition is rendered once for each init value,
\* starting from the schema's child property.
RenderShared ==
    /\ ~rres.done
    /\ rres' = [done |-> TRUE,
                seeds |-> RenderSharedObjects(ChildProperty(Absent, rdefault), rinits, 1)]
    /\ UNCHANGED <<rinits, rdefault, storeVars, sessVars, collVars, dispVars, formVars, unionVars, leafVars, againVars, objVars, predVars, nestVars, groupVars>>

SharedNext == RenderShared

\* ------------------------------------------- first renders from an instance

GroupedFormInit ==
    /\ gfields \in UNION {[1..k -> GroupedFields] : k \in 1..MaxGrouped}
    /\ gres = [s \in Strategies |-> NoGroupedRender]
    /\ StoreIdle
    /\ SessIdle
    /\ CollIdle
    /\ DispIdle
    /\ FormIdle
    /\ UnionIdle
    /\ LeafIdle
    /\ AgainIdle
    /\ ObjIdle
    /\ PredIdle
    /\ NestIdle
    /\ SharedIdle

\* The first render of the form in a fresh session under one strategy.
RenderGrouped(strategy) ==
    /\ ~gres[strategy].done
    /\ gres' = [gres EXCEPT ![strategy] =
                    [done |-> TRUE, seeds |-> GroupedSeeds(strategy, gfields)]]
    /\ UNCHANGED <<gfields, storeVars, sessVars, collVars, dispVars, formVars, unionVars, leafVars, againVars, objVars, predVars, nestVars, sharedVars>>

GroupedNext == \E strategy \in Strategies : RenderGrouped(strategy)

\* ------------------------------------------- renders of a collection

Pressable ==
    {NoPress}
      \cup (IF shown.add THEN {Press("add", 0)} ELSE {})
      \cup (IF shown.clear THEN {Press("clear", 0)} ELSE {})
      \cup {Press("remove", i) : i \in shown.remove}

CollInit ==
    /\ cnode \in CollNodes
    /\ cinit \in InitialColls(cnode)
    /\ coll = cinit
    /\ shown = NoButtons
    /\ cact = NoRender
    /\ chist = <<>>
    /\ StoreIdle
    /\ SessIdle
    /\ DispIdle
    /\ FormIdle
    /\ UnionIdle
    /\ LeafIdle
    /\ AgainIdle
    /\ ObjIdle
    /\ PredIdle
    /\ NestIdle
    /\ SharedIdle
    /\ GroupIdle

\* One render of the collection: _render_list_input or
\* _render_single_dict_input, and the store of what it returns.
RenderCollection(press) ==
    LET data == CollData(cnode, press, coll)
        out == RenderRows(cnode, press, data, 1)
    IN  /\ Len(chist) < MaxRenders
        /\ coll' = out
        /\ shown' = [add |-> AddShown(cnode, data, out),
                     clear |-> ClearButtonAllowed(cnode),
                     remove |-> RemoveOffered(cnode, data)
                                  \ (IF press.b = "remove" THEN {press.i} ELSE {})]
        /\ cact' = [press |-> press, before |-> coll, data |-> data,
                    offered |-> RemoveOffered(cnode, data),
                    entered |-> EnteredItems(cnode, press, data, 1),
                    failed |-> 0, logged |-> 0, raised |-> FALSE]
        /\ chist' = Append(chist, press)
        /\ UNCHANGED <<cnode, cinit>>
        /\ UNCHANGED <<storeVars, sessVars, dispVars, formVars, unionVars, leafVars, againVars, objVars, predVars, nestVars, sharedVars, groupVars>>

CollNext == \E press \in Pressable : RenderCollection(press)

\* ------------------------------------------- renders with failing buttons

ButtonsInit == CollInit

\* One render of the collection while st.button raises; an exception that
\* leaves the renderer leaves render_ui before anything is stored.
RenderWithFailingButtons ==
    LET r == FailingRender(cnode, coll)
    IN  /\ Len(chist) < MaxRenders
        /\ coll' = IF r.raised THEN coll ELSE r.out
        /\ shown' = NoButtons
        /\ cact' = [press |-> NoPress, before |-> coll, data |-> coll,
                    offered |-> {},
                    entered |-> EnteredItems(cnode, NoPress,
                                             SubSeq(coll, 1, r.reached), 1),
                    failed |-> r.failed, logged |-> r.logged, raised |-> r.raised]
        /\ chist' = Append(chist, NoPress)
        /\ UNCHANGED <<cnode, cinit>>
        /\ UNCHANGED <<storeVars, sessVars, dispVars, formVars, unionVars, leafVars, againVars, objVars, predVars, nestVars, sharedVars, groupVars>>

ButtonsNext == RenderWithFailingButtons

\* ------------------------------------------- dispatch of one schema node

DispatchInit ==
    /\ dnode \in Nodes
    /\ dres = NoSelection(dnode)
    /\ StoreIdle
    /\ SessIdle
    /\ CollIdle
    /\ FormIdle
    /\ UnionIdle
    /\ LeafIdle
    /\ AgainIdle
    /\ ObjIdle
    /\ PredIdle
    /\ NestIdle
    /\ SharedIdle
    /\ GroupIdle

\* One call of _render_property, up to the renderer it selects.
Dispatch ==
    /\ ~dres.done
    /\ LET sel == SelectPath(dnode)
       IN  dres' = [done |-> TRUE, path |-> sel.path, raised |-> sel.raised,
                    node |-> sel.node]
    /\ UNCHANGED <<dnode, storeVars, sessVars, collVars, formVars, unionVars, leafVars, againVars, objVars, predVars, nestVars, sharedVars, groupVars>>

\* A second call of _render_property on the same property dict, which the
\* first call has changed in place.
DispatchAgain ==
    /\ dres.done
    /\ dres.raised = "none"
    /\ ~dres2.done
    /\ LET sel == SelectPath(dres.node)
       IN  dres2' = [done |-> TRUE, path |-> sel.path, raised |-> sel.raised,
                     node |-> sel.node]
    /\ UNCHANGED <<dnode, dres, storeVars, sessVars, collVars, formVars,
                   unionVars, leafVars, objVars, predVars, nestVars, sharedVars,
                   groupVars>>

DispatchNext == Dispatch \/ DispatchAgain

\* ------------------------------------------- the property loop of a form

FormInit ==
    /\ fields \in UNION {[1..k -> FormFields] : k \in 1..MaxFields}
    /\ fres = NoFormRender
    /\ StoreIdle
    /\ SessIdle
    /\ CollIdle
    /\ DispIdle
    /\ UnionIdle
    /\ LeafIdle
    /\ AgainIdle
    /\ ObjIdle
    /\ PredIdle
    /\ NestIdle
    /\ SharedIdle
    /\ GroupIdle

\* The property loop of render_ui; pick is the union option selected.
RenderForm(pick) ==
    /\ ~fres.done
    /\ LET r == RenderFields(fields, pick, 1)
       IN  fres' = [done |-> TRUE, pick |-> pick, rendered |-> r.rendered,
                    err |-> r.err]
    /\ UNCHANGED <<fields, storeVars, sessVars, collVars, dispVars, unionVars, leafVars, againVars, objVars, predVars, nestVars, sharedVars, groupVars>>

FormNext == \E pick \in Picks : RenderForm(pick)

\* ------------------------------------------- render of one union node

UnionInit ==
    /\ unode \in UnionNodes
    /\ ures = NoUnionRender
    /\ StoreIdle
    /\ SessIdle
    /\ CollIdle
    /\ DispIdle
    /\ FormIdle
    /\ LeafIdle
    /\ AgainIdle
    /\ ObjIdle
    /\ PredIdle
    /\ NestIdle
    /\ SharedIdle
    /\ GroupIdle

RenderUnion ==
    /\ ~ures.done
    /\ ures' = RenderUnionProperty(unode)
    /\ UNCHANGED <<unode, storeVars, sessVars, collVars, dispVars, formVars, leafVars, againVars, objVars, predVars, nestVars, sharedVars, groupVars>>

UnionNext == RenderUnion

\* ------------------------------------------- render of one leaf node

LeafInit ==
    /\ lnode \in LeafNodes
    /\ lres = NoLeafRender
    /\ StoreIdle
    /\ SessIdle
    /\ CollIdle
    /\ DispIdle
    /\ FormIdle
    /\ UnionIdle
    /\ AgainIdle
    /\ ObjIdle
    /\ PredIdle
    /\ NestIdle
    /\ SharedIdle
    /\ GroupIdle

\* One call of the leaf renderer _render_property selects for lnode.
RenderLeafNode ==
    /\ ~lres.done
    /\ lres' = RenderLeaf(lnode)
    /\ UNCHANGED <<lnode, storeVars, sessVars, collVars, dispVars, formVars, unionVars, againVars, objVars, predVars, nestVars, sharedVars, groupVars>>

LeafNext == RenderLeafNode

\* ------------------------------------------------------ specifications

SpecStore == StoreInit /\ [][StoreNext]_vars

SpecColl == CollInit /\ [][CollNext]_vars

SpecGrouped == GroupedFormInit /\ [][GroupedNext]_vars

SpecShared == SharedInit /\ [][SharedNext]_vars

SpecRows == RowsInit /\ [][RowsNext]_vars

SpecButtons == ButtonsInit /\ [][ButtonsNext]_vars

SpecSession == SessionInit /\ [][SessionNext]_vars

SpecDispatch == DispatchInit /\ [][DispatchNext]_vars

SpecForm == FormInit /\ [][FormNext]_vars

SpecUnion == UnionInit /\ [][UnionNext]_vars

SpecLeaf == LeafInit /\ [][LeafNext]_vars

SpecObject == ObjectInit /\ [][ObjectNext]_vars

SpecPredicates == PredicatesInit /\ [][PredicatesNext]_vars

SpecPydanticForm == PydanticFormInit /\ [][PydanticFormNext]_vars

\* ------------------------------------------------------ claims: the store

ProperPrefixes(k) == {SubSeq(k, 1, n) : n \in 1..(Len(k) - 1)}

\* Every proper prefix of k that addresses a value in st addresses a dict.
PathIsMaps(st, k) ==
    \A p \in ProperPrefixes(k) : Lookup(st, p).found => IsMap(Lookup(st, p).val)

StoreRoundTrip ==
    LET r == GetValueFromState(pstate, sop.key)
    IN  /\ ~sop.raised
        /\ ~r.raised
        /\ r.result = sop.val
        /\ \A p \in ProperPrefixes(sop.key) :
               Lookup(pstate, p).found /\ IsMap(Lookup(pstate, p).val)
        /\ \A q \in Keys :
               ~Related(q, sop.key) => Lookup(pstate, q) = Lookup(sop.before, q)

\* C4 as stated: after every _store_value_in_state(state, k, v), reading k
\* returns v, the intermediate segments of k are mappings, and every key
\* that is neither a prefix nor an extension of k keeps its value.
C4_Original == sop.op = "store" => StoreRoundTrip

\* C4 amended: the same, for the states in which no proper prefix of k
\* already holds a value that is not a mapping (there the store raises
\* TypeError and leaves the state as it was).
C4_StoreRoundTrip ==
    sop.op = "store" =>
        IF PathIsMaps(sop.before, sop.key)
        THEN StoreRoundTrip
        ELSE sop.raised /\ pstate = sop.before

\* A store that had to create a missing intermediate while another,
\* unrelated key already held a value.
C4_Witness ==
    /\ sop.op = "store"
    /\ ~sop.raised
    /\ Len(sop.key) = 2
    /\ ~Lookup(sop.before, <<sop.key[1]>>).found
    /\ \E q \in Keys : ~Related(q, sop.key) /\ Lookup(sop.before, q).found

C2_Original ==
    (sact.act = "render" /\ sact.returnModel /\ sact.verdict # Accepted) =>
        (sact.result.kind = "none" /\ sact.result.warning # NoWarning)

\* C6: constructing InputUI for a form key whose state exists leaves every
\* form's state as it was; a state comes into being only empty and only by
\* construction; a render of a form keeps every key already stored for it
\* and does not touch the other forms.
C6_StatePersists ==
    [][ /\ \A f \in DOMAIN session :
            /\ sact'.act = "construct" =>
                   (f \in DOMAIN session' /\ session'[f] = session[f])
            /\ sact'.act = "render" =>
                   /\ f \in DOMAIN session'
                   /\ DOMAIN session[f].m \subseteq DOMAIN session'[f].m
                   /\ (f # sact'.form => session'[f] = session[f])
        /\ \A f \in (DOMAIN session') \ (DOMAIN session) :
            /\ sact'.act = "construct"
            /\ session'[f] = EmptyMapV
      ]_vars

\* InputUI was constructed again for a form whose state holds values.
C6_Witness ==
    /\ sact.act = "construct"
    /\ sact.form \in DOMAIN session
    /\ DOMAIN session[sact.form].m = Range(Props)

\* ------------------------------------------------- claims: collections

MinOf(a, b) == IF a <= b THEN a ELSE b

\* C7 as stated: after a render the Add button is off the page when the
\* node is read-only or the collection has maxItems rows or more, so the
\* collection never grows on a read-only node nor beyond maxItems.
C7_Original ==
    /\ (chist # <<>> /\ (cnode.readOnly \/ Len(coll) >= cnode.maxItems))
           => ~shown.add
    /\ cnode.readOnly => Len(coll) <= Len(cinit)
    /\ Len(coll) <= cnode.maxItems

\* C8: in every render, _remove_button_allowed(index, node) is true exactly
\* when the node is read-only or index + 1 <= minItems, exactly those rows
\* get no Remove button, and the first minItems rows come out of the
\* render in place.
C8_RemoveGuard ==
    chist # <<>> =>
        /\ \A i \in 0..(Len(cact.data) - 1) :
               /\ RemoveButtonAllowed(i, cnode)
                      <=> (cnode.readOnly \/ i + 1 <= cnode.minItems)
               /\ (cnode.readOnly \/ i + 1 <= cnode.minItems)
                      <=> (i \notin cact.offered)
        /\ \A p \in 1..MinOf(cnode.minItems, Len(cact.before)) :
               /\ p <= Len(coll)
               /\ coll[p].k = cact.before[p].k
               /\ coll[p].v = RenderStringItem(cact.before[p].v)

\* A Remove press took a row out of a collection that protects its first
\* rows.
C8_Witness ==
    /\ cact.press.b = "remove"
    /\ cnode.minItems >= 1
    /\ Len(cact.before) > cnode.minItems
    /\ Len(coll) = Len(cact.before) - 1

\* C9: on a node that is read-only or has minItems > 0 no render leaves a
\* Clear button and no render is a Clear press, so Clear never empties the
\* collection.
C9_ClearGuard ==
    (cnode.readOnly \/ cnode.minItems > 0) =>
        /\ ~shown.clear
        /\ \A n \in 1..Len(chist) : chist[n].b # "clear"

\* A non-empty collection with minItems > 0 was rendered, a button
\* pressed, and rendered again.
C9_Witness ==
    /\ cnode.minItems > 0
    /\ ~cnode.readOnly
    /\ Len(chist) >= 2
    /\ chist[2].b # "none"
    /\ Len(coll) > 0

\* Index of the row an Add press on the mapping d writes: the row keyed
\* str(len(d) + 1), which is a new last row unless d holds that key.
AddedRowIndex(d) ==
    LET key == StrOf(Len(d) + 1)
    IN  IF key \in RowKeys(d)
        THEN (CHOOSE i \in 0..(Len(d) - 1) : d[i + 1].k = key)
        ELSE Len(d)

\* C10 as stated: a dict holding M, rendered, Add pressed, then Remove
\* pressed on the added row, holds exactly M again.
C10_Original ==
    (/\ cnode.shape = "dict"
     /\ Len(chist) = 3
     /\ chist[2] = Press("add", 0)
     /\ chist[3] = Press("remove", AddedRowIndex(cinit)))
        => coll = cinit

\* ------------------------------------------------- claims: the dispatcher

\* Whether the test of a rendering path holds on a flattened node.
Matches(shape, f) ==
    CASE shape = "enum" -> IsSingleEnumProperty(f)
      [] shape = "multi_enum" -> IsMultiEnumProperty(f)
      [] shape = "file" -> IsSingleFileProperty(f)
      [] shape = "multi_file" -> IsMultiFileProperty(f)
      [] shape = "datetime" -> IsSingleDatetimeProperty(f)
      [] shape = "color" -> IsSingleColorProperty(f)
      [] shape = "boolean" -> IsSingleBooleanProperty(f)
      [] shape = "dict" -> IsSingleDictProperty(f)
      [] shape = "number" -> IsSingleNumberProperty(f)
      [] shape = "string" -> IsSingleStringProperty(f)
      [] shape = "object" -> IsSingleObject(f)
      [] shape = "list" -> IsPropertyListAndObject(f).res
      [] shape = "reference" -> IsSingleReference(f)
      [] shape = "union" -> IsUnionProperty(f)
      [] shape = "raw_string" -> f.type \in {"none", "array"}
      [] shape = "unsupported" -> TRUE

\* The selected path is one of the sixteen and the first whose test holds.
FirstMatching(path, f) ==
    \E i \in 1..Len(Shapes) :
        /\ Shapes[i] = path
        /\ Matches(path, f)
        /\ \A j \in 1..(i - 1) : ~Matches(Shapes[j], f)

\* The list-of-object test is reached and raises.
ListTestRaises(f) ==
    /\ \A j \in 1..11 : ~Matches(Shapes[j], f)
    /\ IsPropertyListAndObject(f).raised # "none"

\* C1 as stated: for every schema node handed to _render_property exactly
\* one rendering path is selected, the first matching one in the order
\* enum, multi-enum, file, multi-file, datetime, color, boolean, dict,
\* number, string, object, list, reference, union, fallback.
C1_Original ==
    dres.done => FirstMatching(dres.path, Flatten(dnode))

\* C1: for every schema node on which the list-of-object test does not
\* raise, exactly one rendering path is selected and it is the first one
\* in the fixed order whose test holds on the node; the dispatcher raises
\* instead exactly when no test before list-of-object holds and that test
\* raises (the array's item reference is missing, has no type, or has a
\* type that is neither primitive nor object).
C1_FirstMatchingPath ==
    dres.done =>
        LET f == Flatten(dnode)
        IN  IF ListTestRaises(f)
            THEN dres.path = "raised" /\ dres.raised \in {"TypeError", "KeyError"}
            ELSE dres.raised = "none" /\ FirstMatching(dres.path, f)

\* A node with a format that is also a string: datetime wins over string.
C1_Witness ==
    /\ dres.done
    /\ dres.path = "datetime"
    /\ Matches("string", Flatten(dnode))

\* C3 as stated: only the array-item classification error and JSON
\* decoding failures leave the property loop; with any other failure on a
\* field the sibling fields are still rendered.
C3_Original ==
    fres.done =>
        /\ fres.err \in {"none", "TypeError", "JSONDecodeError"}
        /\ fres.err = "none" => Len(fres.rendered) = Len(fields)

\* ------------------------------------------------- claims: unions

\* Index (from 0) of the branch whose discriminator enum is exactly [v].
ExactBranches(n) ==
    {i \in 0..(Len(n.br) - 1) : UnionDefs[n.br[i + 1]].kind = <<n.init>>}

\* C11: a union node with a discriminator and an instance value resolves
\* through the discriminator only, never through instance_class, and to the
\* branch whose discriminator enum is exactly [instance value's
\* discriminator]: that branch is given the init value and is the one
\* selected; when no branch has exactly that enum no branch is chosen.
C11_DiscriminatorFirst ==
    (ures.done /\ unode.init # "none" /\ unode.disc) =>
        /\ ures.via = "discriminator"
        /\ IF ExactBranches(unode) = {}
           THEN ures.raised /\ ures.seeded = "none" /\ ures.selected = "none"
           ELSE /\ ~ures.raised
                /\ ures.index \in ExactBranches(unode)
                /\ ures.seeded = unode.br[ures.index + 1]
                /\ ures.selected = ures.seeded

\* The instance is a Catfish next to a branch titled Cat: instance_class
\* alone would pick Cat, the discriminator picks Catfish.
C11_Witness ==
    /\ ures.done
    /\ unode.disc
    /\ unode.ic # <<>>
    /\ ures.via = "discriminator"
    /\ ~ures.raised
    /\ DisambiguateInstanceClassFirst(unode).index # ures.index

\* ------------------------------------------------- claims: leaf seeding

\* A candidate is present when it is neither None (or missing) nor "".
Present(v) == ~IsNone(v) /\ v # StrV(<<>>)

\* The source the uniform precedence names: init_value, else default, else
\* example, else the widget's own fallback.
UniformSource(n) ==
    IF Present(n.init) THEN "init"
    ELSE IF Present(n.default) THEN "default"
    ELSE IF Present(n.example) THEN "example"
    ELSE "fallback"

\* C12 as stated: every leaf renderer (string, color, number, boolean,
\* enum, multi-enum, date/time) seeds its widget from init_value if
\* present, else default if present, else example if present, else the
\* widget's fallback, present meaning neither None nor "".
C12_Original ==
    (lres.done /\ ~lres.raised /\ IsNone(lnode.ws)) =>
        IF UniformSource(lnode) = "fallback"
        THEN lres.seed.source \in {"none", "fallback"}
        ELSE lres.seed.source = UniformSource(lnode)

\* A value the node's schema admits.
Admissible(n, x) ==
    CASE n.shape = "string" -> x.kind = "str"
      [] n.shape = "number" -> x.kind = "int"
      [] n.shape = "boolean" -> x.kind = "bool"
      [] n.shape = "enum" -> x \in Range(n.enum)
      [] OTHER -> FALSE

\* C13 as stated: a string, number, boolean or enum node seeded with an
\* admissible init_value X, with no stored widget value and no edit,
\* renders to X.
C13_Original ==
    (lres.done /\ IsNone(lnode.ws) /\ Admissible(lnode, lnode.init)) =>
        (~lres.raised /\ lres.value = lnode.init)

C16_Original ==
    (lres.done /\ lnode.shape = "enum" /\ Len(lnode.enum) = 1) =>
        (~lres.raised /\ lres.value = lnode.enum[1] /\ ~lres.choice)

\* ------------------------------------------------- claims: idempotence

\* The renderers of list and dict collections.
CollectionPaths == {"list", "dict"}

C17_Original ==
    sact.act = "form" =>
        IF sact.submit /\ sact.verdict = Accepted
        THEN sact.result.kind = "model"
        ELSE sact.result.kind = "none"

\* ------------------------------------------------- claims: empty values

\* What ignore_empty_values promises for one field of a render: an empty
\* int, float or str value is left out exactly when the session held
\* nothing for that field; every other value is kept.
KeptAsPromised(ignoreEmpty, t) ==
    IF ignoreEmpty /\ t.value.kind \in {"int", "float", "str"} /\ Falsy(t.value)
    THEN ~t.kept <=> t.before = NoneV
    ELSE t.kept

\* C18 as stated: with ignore_empty_values an empty int, float or str value
\* is left unstored if and only if nothing was stored before for that same
\* field, for the top-level field "a" (key "a") and for the nested fields
\* (keys "b.a" and "b.c") alike; with the option off every rendered value
\* is stored.
C18_Original ==
    oact.act = "render" =>
        /\ KeptAsPromised(oact.ignoreEmpty, oact.top)
        /\ \A p \in Range(ObjectProps) : KeptAsPromised(oact.ignoreEmpty, oact.nested[p])

\* The top-level half of C18 on its own.
C18_TopLevel == oact.act = "render" => KeptAsPromised(oact.ignoreEmpty, oact.top)

\* ------------------------------------------------- claims: collection items

\* C19: in a render of a list where Remove is pressed on item i (the
\* Remove button this render draws for row i reports the press), the
\* renderer's output is the prior list without item i: one row shorter,
\* every other item re-entered under its original index and coming out
\* with its value, in the original order.
C19_RemoveOnlyThat ==
    (/\ chist # <<>>
     /\ cnode.shape = "list"
     /\ cact.press.b = "remove"
     /\ cact.press.i \in cact.offered) =>
        LET i == cact.press.i
            from(p) == IF p <= i THEN p ELSE p + 1
        IN  /\ Len(coll) = Len(cact.before) - 1
            /\ Len(cact.entered) = Len(coll)
            /\ \A p \in 1..Len(coll) :
                   /\ coll[p] = cact.before[from(p)]
                   /\ cact.entered[p].index = from(p) - 1

\* Remove was pressed on a row in the middle of a list of three rows that
\* are not all alike; the rows before and after it came out.
C19_Witness ==
    /\ cnode.shape = "list"
    /\ cact.press = Press("remove", 1)
    /\ Len(cact.before) = 3
    /\ cact.before[1] # cact.before[3]
    /\ coll = <<cact.before[1], cact.before[3]>>

\* C20 as stated: every surviving item of a list or dict collection is
\* re-entered into the dispatcher with is_item true and init_value equal to
\* the item's prior value, whatever that value is (0, False and "" too).
C20_Original ==
    chist # <<>> =>
        \A p \in 1..Len(cact.entered) :
            /\ cact.entered[p].property.is_item
            /\ cact.entered[p].property.init_value = cact.entered[p].prior

\* The dict half of C20 on its own.
C20_DictItems ==
    (chist # <<>> /\ cnode.shape = "dict") =>
        \A p \in 1..Len(cact.entered) :
            /\ cact.entered[p].property.is_item
            /\ cact.entered[p].property.init_value = cact.entered[p].prior

\* ------------------------------------------------- claims: schema predicates

\* The referenced definition of the node's array items, "none" when the
\* items carry no reference.
ItemReference(n) ==
    IF n.type = "array" /\ (n.items.present \/ (n.anyOf.present /\ Len(n.anyOf.br) > 0))
    THEN ListItemSchema(n).ref
    ELSE "none"

\* The referenced item type is neither a primitive nor an object.
ItemTypeUnsupported(n) ==
    LET r == ItemReference(n)
    IN  /\ r # "none"
        /\ Resolves(r)
        /\ Refs[r].type # "none"
        /\ Refs[r].type \notin Primitive \cup {"object"}

\* C21 as stated: the soft predicates (single-enum, multi-enum,
\* single-object, union) raise for no node and answer false when the
\* reference they need does not resolve; of all predicates only
\* is_property_list_and_object raises, and only when the referenced array
\* item type is neither a primitive nor an object.
C21_Original ==
    pres.done =>
        /\ \A k \in DOMAIN pres.calls \ {"list"} : pres.calls[k].raised = "none"
        /\ (pnode.enum = <<>> /\ ~Resolves(SingleReferenceName(pnode)))
               => ~pres.calls.enum.res
        /\ ~Resolves(SingleReferenceName(pnode)) => ~pres.calls.object.res
        /\ pres.calls.list.raised # "none" => ItemTypeUnsupported(pnode)

\* The half of C21 about the soft predicates on its own.
C21_SoftNeverRaise ==
    pres.done =>
        /\ \A k \in DOMAIN pres.calls \ {"list"} : pres.calls[k].raised = "none"
        /\ (pnode.enum = <<>> /\ ~Resolves(SingleReferenceName(pnode)))
               => ~pres.calls.enum.res
        /\ ~Resolves(SingleReferenceName(pnode)) => ~pres.calls.object.res

\* The calls answer what the predicates used by the dispatcher answer.
CallsAgree ==
    pres.done =>
        /\ pres.calls.enum.res = IsSingleEnumProperty(pnode)
        /\ pres.calls.multiEnum.res = IsMultiEnumProperty(pnode)
        /\ pres.calls.object.res = IsSingleObject(pnode)

\* C22 as stated: on no node are is_single_object and
\* is_single_dict_property both true.
C22_Original ==
    pres.done => ~(pres.calls.object.res /\ pres.calls.dict.res)

\* ------------------------------------------------- claims: object defaults

\* A field rendered as a referenced object whose default is a string that
\* json.loads rejects.
ObjectWithUnparsableDefault(n) ==
    /\ SelectPath(n).path = "object"
    /\ n.default # "none"
    /\ ~ParsesAsJson(n.default)

\* C23 as stated: a referenced object whose default is a string that is
\* not valid JSON is rendered without an exception: its children are
\* rendered (with their own fallbacks) and the render goes on.
C23_Original ==
    (fres.done /\ ObjectWithUnparsableDefault(fields[1])) =>
        /\ fres.err # "JSONDecodeError"
        /\ Len(fres.rendered) >= 1
        /\ fres.rendered[1] = "object"

\* ------------------------------------------------- claims: failing buttons

\* C24 as stated: when the construction of an Add, Clear or Remove button
\* of a list or dict collection fails, the failure is logged and does not
\* leave the renderer, and the render hands the collection back unchanged.
C24_Original ==
    (chist # <<>> /\ cact.failed >= 1) =>
        /\ ~cact.raised
        /\ cact.logged = cact.failed
        /\ coll = cact.before

\* The part of C24 the list's Add and Clear buttons bear out: on a list
\* that draws no Remove button, the failures are logged and the list comes
\* back as it was.
C24_ListAddClear ==
    (chist # <<>> /\ cnode.shape = "list" /\ RemoveOffered(cnode, cact.before) = {}) =>
        /\ cact.failed >= 1
        /\ ~cact.raised
        /\ cact.logged = cact.failed
        /\ coll = cact.before

\* ------------------------------------------------- claims: unsupported nodes

\* C25: a field whose node matches no known shape (and is not taken by the
\* no-type or array fallback) gets the warning and the log entry, raises
\* nothing, and the property loop goes on: every field after it is
\* rendered too, as long as no renderer of another field raises first.
C25_UnsupportedGoesOn ==
    fres.done =>
        \A i \in 1..Len(fields) :
            (/\ SelectPath(fields[i]).path = "unsupported"
             /\ \A j \in 1..(i - 1) : RenderProperty(fields[j], fres.pick).err = "none")
                => /\ Len(fres.rendered) >= i
                   /\ fres.rendered[i] = "unsupported"
                   /\ fres.err # "Exception"
                   /\ \A k \in (i + 1)..Len(fields) :
                          (\A j \in (i + 1)..k :
                               RenderProperty(fields[j], fres.pick).err = "none")
                             => /\ Len(fres.rendered) >= k
                                /\ fres.rendered[k] = SelectPath(fields[k]).path

\* A form whose first field is unsupported and whose second is a string:
\* both were rendered.
C25_Witness ==
    /\ fres.done
    /\ Len(fields) = 2
    /\ fields[1].type = "null"
    /\ fres.rendered = <<"unsupported", "string">>
    /\ fres.err = "none"

\* ------------------------------------------------- claims: reads of the store

\* C26 as stated: a read leaves the path-keyed state as it was, whether or
\* not the key and its intermediate segments are there.
C26_Original == sop.op = "get" => pstate = sop.before

\* The part of C26 that holds: a read of a one-segment key changes nothing.
C26_SingleSegment == (sop.op = "get" /\ Len(sop.key) = 1) => pstate = sop.before

\* ------------------------------------------------- claims: keys of the state

\* C27 as stated: after any sequence of renders every top-level key of
\* the form's path-keyed state is the name of a property of the schema; no
\* key made from a widget key or an item index is in it.
C27_Original == DOMAIN nstate.m \subseteq RowsFormProps

\* The part of C27 that holds: as long as "rows" has held no row, only
\* property names are keys of the state.
C27_NoRows ==
    (RowsItemKey \notin DOMAIN nstate.m) => DOMAIN nstate.m \subseteq RowsFormProps

\* ------------------------------------------------- claims: repeated definitions

\* C28 as stated: when one object definition is rendered several times in
\* a form render, a rendering without a prior value seeds its child from
\* the schema default or the fallback, never from an init value an
\* earlier rendering was given.
C28_Original ==
    rres.done =>
        \A i \in 1..Len(rinits) :
            rinits[i] = NoneV => rres.seeds[i].source # "init"

\* The part of C28 that holds: the first rendering of the form render, when
\* it has no prior value, is seeded from the default or the fallback.
C28_FirstRendering ==
    (rres.done /\ rinits[1] = NoneV) => rres.seeds[1].source # "init"

\* ------------------------------------------------- claims: Add on a dict

\* C29 as stated: a render of a dict in which Add is pressed hands back
\* the mapping with exactly one entry more, every entry it held before
\* still there with its key and value, whatever keys it held.
C29_Original ==
    (chist # <<>> /\ cnode.shape = "dict" /\ cact.press.b = "add") =>
        /\ Len(coll) = Len(cact.before) + 1
        /\ \A p \in 1..Len(cact.before) :
               \E q \in 1..Len(coll) : coll[q] = cact.before[p]

\* The part of C29 that holds: when the mapping does not hold the key
\* str(len + 1), Add leaves one entry more and every entry in place.
C29_FreshKey ==
    (/\ chist # <<>>
     /\ cnode.shape = "dict"
     /\ cact.press.b = "add"
     /\ StrOf(Len(cact.before) + 1) \notin RowKeys(cact.before)) =>
        /\ Len(coll) = Len(cact.before) + 1
        /\ \A p \in 1..Len(cact.before) : coll[p] = cact.before[p]

\* ------------------------------------------------- claims: grouping strategies

\* C30 as stated: with an instance passed as input, each field gets the
\* same seed on the first render under every group_optional_fields
\* strategy; a field rendered in the expander is seeded from the instance
\* like a field of the main pass.
C30_Original ==
    \A s1, s2 \in Strategies :
        (gres[s1].done /\ gres[s2].done) => gres[s1].seeds = gres[s2].seeds

\* The part of C30 that holds: "no" and "sidebar" seed every field alike.
C30_SidebarAlike ==
    (gres["no"].done /\ gres["sidebar"].done)
        => gres["no"].seeds = gres["sidebar"].seeds

====
